---------------------------- MODULE Spec2Model ----------------------------
(***************************************************************************)
(* A model of mlprocess.py: the multi-label model-selection and evaluation *)
(* harness (per-label descriptor selection, class balancing, hyper-        *)
(* parameter search, cross-validated and held-out reporting).              *)
(*                                                                         *)
(* Python objects are modelled as follows.                                 *)
(*   - A DataFrame is a record [columns, values]: the ordered column names *)
(*     and, parallel to them, one column vector (a sequence over the rows) *)
(*     per column.  A column name is a pair <<table, position>>.           *)
(*   - A dict is a function on its keys; a value that may be None is a     *)
(*     sequence of length 0 (None) or 1 (the value).                       *)
(*   - An exception that leaves a function is the outcome "raised".        *)
(***************************************************************************)
EXTENDS Integers, Sequences, FiniteSets, TLC

VARIABLES
    out_names,            \* the label names every multi-label function is given
    (* create_dataframes_dic: its arguments (one set per call) *)
    df_desc_base_train,   \* descriptor table of the training partition
    df_desc_base_test,    \* call -> descriptor table of the held-out partition
    X_train_fp,           \* fingerprint table of the training partition
    X_test_fp,            \* call -> fingerprint table of the held-out partition
    y_train,              \* label -> target vector of the training partition
    k,                    \* number of descriptors to keep
    (* create_dataframes_dic: its locals (one set per call) *)
    train_series_dic,     \* call -> label -> None or the train matrix
    test_series_dic,      \* call -> label -> None or the test matrix
    selected_name,        \* call -> label -> None or the selected columns
    build_i,              \* call -> number of labels the loop has completed
    build_pc,             \* call -> "idle" | "loop" | "returned" | "raised"
    (* balance_dataset: its locals *)
    train_series_dic_bal, \* label -> None or the resampled train matrix
    y_dic_bal,            \* label -> None or the resampled target vector
    bal_i,                \* number of labels the loop has completed
    bal_pc,               \* "idle" | "loop" | "returned" | "raised"
    smote_log,            \* the applications of the balancer, oldest first
    (* grid_search, random_search, cv_report and the per-label body of
       test_score_multi_report, on one label: arguments *)
    cv_op,                \* which of the four functions runs
    X_train,              \* the label's train matrix: [columns, index]
    y_label,              \* the label's training target vector (y_train)
    X_test_rows,          \* the index of the label's held-out matrix
    y_test_label,         \* held-out row -> its class
    balancing,            \* the balancing flag
    n_splits,             \* number of folds
    model,                \* the model family handed in
    n_candidates,         \* configurations the search evaluates
    verbose,              \* the verbose flag
    test_given,           \* X_test and y_test were passed to the search
    (* ... and locals *)
    estimator,            \* None or the estimator that is cross-validated
    test_folds,           \* None or row -> the fold that validates it
    cv_next,              \* number of (candidate, fold) fits completed
    events,               \* calls made on samplers and models, oldest first
    cv_pc,                \* "idle" | "cv" | "refit" | "fitted" | "returned" | "raised"
    (* multi_label_grid_search and multi_label_random_search: arguments (one
       set per call; y_train, model, balancing and n_splits above are shared
       by the calls) *)
    search_kind,          \* "grid" | "random": which of the two functions runs
    X_train_dic,          \* call -> label -> the label's train matrix
    params_to_test,       \* call -> label -> the label's parameter grid
    n_iter,               \* configurations a random search samples
    np_seed,              \* call -> state of numpy's global generator at the call
    ms_verbose,           \* call -> the verbose flag
    ms_y_test,            \* call -> what is passed as y_test with X_test (a dict
                          \*         of DataFrames): "none" | "frame" | "dict"
    (* ... and locals *)
    np_random,            \* call -> state of numpy's global generator
    best_params_by_label, \* call -> label -> None or the best configuration
    cv_results_,          \* call -> label -> None or [params, mean_test_score]
    ms_i,                 \* call -> number of labels the loop has completed
    ms_pc,                \* call -> "idle" | "loop" | "returned" | "raised"
    (* cv_multi_report and test_score_multi_report: arguments (X_train_dic of
       call 1, y_train, model, balancing and n_splits above are shared) *)
    modelname,            \* label -> the label's model family tag
    spec_params_form,     \* what is passed as spec_params: "none" | "map" | "list"
    y_test,               \* label -> target vector of the held-out partition
    (* ... and locals, one set per function *)
    report,               \* function -> None or the report table
    model_temp,           \* function -> label -> None or the rebuilt estimator
    fitted,               \* function -> label -> None or the object whose fit
                          \*             method ran for the label
    rep_i,                \* function -> number of labels the loop has completed
    rep_pc,               \* function -> "idle" | "loop" | "returned" |
                          \*             "returned_none" | "raised"
    rep_error,            \* function -> None or the exception that left it
    (* select_best_descriptors_multi, called with df_desc_base_train, y_train
       and k above: its locals *)
    selected,             \* the columns selected so far, in order
    sel_i,                \* number of labels the loop has completed
    sel_pc,               \* "idle" | "loop" | "returned" | "raised" |
                          \* "returned_none" (message printed, None returned)
    (* create_offside_df and get_smile_from_cid *)
    oss,                  \* rows of offsides_socs.csv: [stitch_id, SOC]
    write,                \* the write flag
    responses,            \* trimmed compound number -> what the request does:
                          \* "ok" | "http_error" | "connection_error"
    stitchs,              \* the unique stitch ids, in order of appearance
    sti_to_smil,          \* stitch id -> None or the text returned for it
    stdout,               \* the stitch ids of the problems printed, oldest first
    off_i,                \* number of stitch ids looked up
    off_pc,               \* "idle" | "lookups" | "returned" | "raised"
    mod_off,              \* None or the table returned
    csv_out,              \* None or the table written to the csv file
    (* the per-label loop of a search or a report and the worker pool its
       fits run on (n_splits and n_candidates above are its arguments) *)
    loop_op,              \* the function that runs the loop
    n_jobs,               \* workers of the pool
    queued,               \* tasks dispatched and not yet taken, in order
    running,              \* tasks a worker is executing
    finished,             \* tasks completed
    written,              \* the labels whose entry or row is written, in order
    loop_i,               \* number of labels the loop has completed
    loop_pc               \* "idle" | "next" | "waiting" | "returned"

buildVars == <<df_desc_base_train, df_desc_base_test, X_train_fp, X_test_fp,
               y_train, k, train_series_dic, test_series_dic, selected_name,
               build_i, build_pc>>

balVars == <<train_series_dic_bal, y_dic_bal, bal_i, bal_pc, smote_log>>

cvVars == <<cv_op, X_train, y_label, X_test_rows, y_test_label, balancing, n_splits,
            model, n_candidates, verbose, test_given, estimator, test_folds,
            cv_next, events, cv_pc>>

searchVars == <<search_kind, X_train_dic, params_to_test, n_iter, np_seed, ms_verbose,
                ms_y_test, np_random, best_params_by_label, cv_results_, ms_i, ms_pc>>

repVars == <<modelname, spec_params_form, y_test, report, model_temp, fitted, rep_i,
             rep_pc, rep_error>>

selVars == <<selected, sel_i, sel_pc>>

offVars == <<oss, write, responses, stitchs, sti_to_smil, stdout, off_i, off_pc, mod_off,
             csv_out>>

loopVars == <<loop_op, n_jobs, queued, running, finished, written, loop_i, loop_pc>>

vars == <<loopVars, offVars, out_names, selVars, buildVars, balVars, cvVars, searchVars, repVars>>

\* What the actions of one component leave alone.
notBuild == <<loopVars, offVars, out_names, selVars, balVars, cvVars, searchVars, repVars>>
notBal == <<loopVars, offVars, out_names, selVars, buildVars, cvVars, searchVars, repVars>>
notCV == <<loopVars, offVars, out_names, selVars, buildVars, balVars, searchVars, repVars>>
notSearch == <<loopVars, offVars, out_names, selVars, buildVars, balVars, cvVars, repVars>>
notSelect == <<loopVars, offVars, out_names, buildVars, balVars, cvVars, searchVars, repVars>>
notOffside == <<loopVars, out_names, selVars, buildVars, balVars, cvVars, searchVars, repVars>>
notLoop == <<out_names, offVars, selVars, buildVars, balVars, cvVars, searchVars, repVars>>
notReport == <<loopVars, offVars, out_names, selVars, buildVars, balVars, cvVars, searchVars>>

(***************************************************************************)
(* Bounds of the model.                                                    *)
(***************************************************************************)
NRows == 3        \* rows of a partition
NDesc == 3        \* columns of the descriptor table
NLabels == 2      \* labels in out_names
FpWidth == 2      \* columns of the small fingerprint table
NSeeds == 3       \* how many different descriptor tables are drawn
MaxVal == 2       \* largest descriptor value
MaxSplits == 3    \* largest n_splits
MaxCandidates == 2 \* most configurations a search evaluates
FewPos == 2       \* most positive rows of a small training set
SmallNeg == 4     \* negative rows of a small training set
RngPeriod == 3    \* states of numpy's global generator
MaxJobs == 2      \* most workers of the pool
NCompounds == 2   \* compounds of the offsides file
NOss == 2         \* rows of the offsides file
ScoreLevels == 3  \* different values a mean score takes

None == <<>>
Some(v) == <<v>>
IsNone(o) == o = <<>>
Get(o) == o[1]

Calls == 1..2
AllNames == [i \in 1..NLabels |-> i]
Labels == {out_names[i] : i \in DOMAIN out_names}

Max(a, b) == IF a >= b THEN a ELSE b
Abs(a) == IF a >= 0 THEN a ELSE -a

RECURSIVE SumSeq(_)
SumSeq(s) == IF s = <<>> THEN 0 ELSE s[1] + SumSeq(Tail(s))

(***************************************************************************)
(* DataFrames                                                              *)
(***************************************************************************)
ColumnSet(df) == {df.columns[i] : i \in 1..Len(df.columns)}

ColumnIndex(df, c) == CHOOSE i \in 1..Len(df.columns) : df.columns[i] = c

\* df.loc[:, cols]: the named columns, in the order of cols
HasColumns(df, cols) == \A i \in 1..Len(cols) : cols[i] \in ColumnSet(df)

Loc(df, cols) ==
    [columns |-> cols,
     values  |-> [i \in 1..Len(cols) |-> df.values[ColumnIndex(df, cols[i])]]]

\* df.loc[:, mask].columns.to_list(): the columns the mask keeps, in order
RECURSIVE MaskedColumns(_, _, _)
MaskedColumns(cols, mask, i) ==
    IF i > Len(cols) THEN <<>>
    ELSE (IF mask[i] THEN <<cols[i]>> ELSE <<>>) \o MaskedColumns(cols, mask, i + 1)

\* pd.concat([a, b], axis=1)
Concat(a, b) == [columns |-> a.columns \o b.columns,
                 values  |-> a.values \o b.values]

(***************************************************************************)
(* Feature selector                                                        *)
(***************************************************************************)
\* The scoring function handed to SelectKBest: one score per column, here
\* the separation of the two class means, |n0 * sum1 - n1 * sum0|.
ClassSum(col, y, c) == SumSeq([r \in 1..Len(col) |-> IF y[r] = c THEN col[r] ELSE 0])
ClassCount(y, c) == Cardinality({r \in DOMAIN y : y[r] = c})

score_func(X, y) ==
    [i \in 1..Len(X.columns) |->
        Abs(ClassCount(y, 0) * ClassSum(X.values[i], y, 1)
            - ClassCount(y, 1) * ClassSum(X.values[i], y, 0))]

\* SelectKBest.get_support(): the k columns with the highest scores; the
\* stable ascending sort keeps, among equal scores, the later columns.
get_support(scores, kk) ==
    [i \in 1..Len(scores) |->
        Cardinality({j \in 1..Len(scores) :
                        \/ scores[j] > scores[i]
                        \/ (scores[j] = scores[i] /\ j > i)}) < kk]

\* SelectKBest(k).fit raises unless 0 <= k <= n_features; `assert sel`
\* raises on an empty selection.
SelectRaises(X, kk) == kk < 1 \/ kk > Len(X.columns)

select_best_descriptors(X, y, kk) ==
    MaskedColumns(X.columns, get_support(score_func(X, y), kk), 1)

(***************************************************************************)
(* select_best_descriptors_multi                                           *)
(***************************************************************************)
\* SelectKBest(k).fit alone: k = 0 selects nothing and does not raise.
SelectKBestRaises(X, kk) == kk < 0 \/ kk > Len(X.columns)

\* if s not in selected: selected.append(s)
AppendNew_Always(list, s) == Append(list, s)

AppendNew(list, s) ==
    IF \E p \in DOMAIN list : list[p] = s THEN list ELSE Append(list, s)

\* for s in sel: ...
RECURSIVE Extend(_, _, _)
Extend(list, sel, i) ==
    IF i > Len(sel) THEN list
    ELSE Extend(AppendNew(list, sel[i]), sel, i + 1)

\* The test of out_names and the empty list.
SelectMultiStart ==
    /\ sel_pc = "idle"
    /\ selected' = <<>>
    /\ sel_i' = 0
    /\ sel_pc' = IF out_names = <<>> THEN "returned_none" ELSE "loop"
    /\ UNCHANGED notSelect

\* One iteration of the loop over out_names.
SelectMultiLabel ==
    /\ sel_pc = "loop"
    /\ sel_i < Len(out_names)
    /\ LET n == out_names[sel_i + 1]
           sel == select_best_descriptors(df_desc_base_train, y_train[n], k)
       IN  IF SelectKBestRaises(df_desc_base_train, k)
           THEN /\ sel_pc' = "raised"
                /\ UNCHANGED <<selected, sel_i>>
           ELSE /\ selected' = Extend(selected, sel, 1)
                /\ sel_i' = sel_i + 1
                /\ UNCHANGED sel_pc
    /\ UNCHANGED notSelect

SelectMultiReturn ==
    /\ sel_pc = "loop"
    /\ sel_i = Len(out_names)
    /\ sel_pc' = "returned"
    /\ UNCHANGED <<selected, sel_i>>
    /\ UNCHANGED notSelect

(***************************************************************************)
(* Per-label dataset builder: create_dataframes_dic                        *)
(***************************************************************************)
\* The table the selection of a call is computed from.
SelectionFrame_Leak(train, test) ==
    [columns |-> train.columns,
     values  |-> [i \in 1..Len(train.columns) |->
                     IF train.columns[i] \in ColumnSet(test)
                     THEN test.values[ColumnIndex(test, train.columns[i])]
                     ELSE train.values[i]]]

SelectionFrame(train, test) == train

\* The descriptor columns of the held-out matrix.
TestDescriptorColumns_Positional(df_test, sel_col) ==
    [i \in 1..(IF Len(sel_col) <= Len(df_test.columns)
               THEN Len(sel_col) ELSE Len(df_test.columns)) |-> df_test.columns[i]]

TestDescriptorColumns(df_test, sel_col) == sel_col

BuildStart(c) ==
    /\ build_pc[c] = "idle"
    /\ \A d \in Calls : d < c => build_pc[d] \in {"returned", "raised"}
    /\ build_pc' = [build_pc EXCEPT ![c] = "loop"]
    /\ train_series_dic' = [train_series_dic EXCEPT ![c] = [n \in Labels |-> None]]
    /\ test_series_dic' = [test_series_dic EXCEPT ![c] = [n \in Labels |-> None]]
    /\ selected_name' = [selected_name EXCEPT ![c] = [n \in Labels |-> None]]
    /\ build_i' = [build_i EXCEPT ![c] = 0]
    /\ UNCHANGED <<df_desc_base_train, df_desc_base_test, X_train_fp, X_test_fp,
                   y_train, k>>
    /\ UNCHANGED notBuild

\* One iteration of the loop over out_names.
BuildLabel(c) ==
    /\ build_pc[c] = "loop"
    /\ build_i[c] < Len(out_names)
    /\ LET name == out_names[build_i[c] + 1]
           frame == SelectionFrame(df_desc_base_train, df_desc_base_test[c])
       IN  IF SelectRaises(frame, k)
           THEN /\ build_pc' = [build_pc EXCEPT ![c] = "raised"]
                /\ UNCHANGED <<train_series_dic, test_series_dic, selected_name,
                               build_i>>
           ELSE LET sel_col == select_best_descriptors(frame, y_train[name], k)
                    test_cols == TestDescriptorColumns(df_desc_base_test[c], sel_col)
                IN  /\ selected_name' = [selected_name EXCEPT ![c][name] = Some(sel_col)]
                    /\ IF HasColumns(df_desc_base_test[c], test_cols)
                       THEN /\ train_series_dic' =
                                 [train_series_dic EXCEPT ![c][name] =
                                     Some(Concat(X_train_fp,
                                                 Loc(df_desc_base_train, sel_col)))]
                            /\ test_series_dic' =
                                 [test_series_dic EXCEPT ![c][name] =
                                     Some(Concat(X_test_fp[c],
                                                 Loc(df_desc_base_test[c], test_cols)))]
                            /\ build_i' = [build_i EXCEPT ![c] = build_i[c] + 1]
                            /\ UNCHANGED build_pc
                       ELSE \* .loc raises KeyError on a missing column
                            /\ build_pc' = [build_pc EXCEPT ![c] = "raised"]
                            /\ UNCHANGED <<train_series_dic, test_series_dic, build_i>>
    /\ UNCHANGED <<df_desc_base_train, df_desc_base_test, X_train_fp, X_test_fp,
                   y_train, k>>
    /\ UNCHANGED notBuild

BuildReturn(c) ==
    /\ build_pc[c] = "loop"
    /\ build_i[c] = Len(out_names)
    /\ build_pc' = [build_pc EXCEPT ![c] = "returned"]
    /\ UNCHANGED <<df_desc_base_train, df_desc_base_test, X_train_fp, X_test_fp,
                   y_train, k, train_series_dic, test_series_dic, selected_name,
                   build_i>>
    /\ UNCHANGED notBuild

(***************************************************************************)
(* Class balancer: SMOTENC and balance_dataset                             *)
(***************************************************************************)
cat_len == 1128          \* length of the categorical-feature mask
n_continuous == 3        \* trailing mask entries marked continuous
k_neighbors == 5         \* SMOTENC's neighbours (its default)

\* np.full((1128,), True); cat_shape[-3:] = False
cat_shape == [i \in 1..cat_len |-> i <= cat_len - n_continuous]

\* A matrix is a DataFrame or, where neither its column names nor its cells
\* matter, [ncols, index, tag]: its width, its row labels and a tag that
\* stands for its cells.
Matrix(ncols, nrows, tag) == [ncols |-> ncols, index |-> 1..nrows, tag |-> tag]
NCols(X) == IF "columns" \in DOMAIN X THEN Len(X.columns) ELSE X.ncols

\* The positions a boolean mask marks: SMOTENC turns categorical_features
\* into these (np.flatnonzero).
categorical_features == {i \in DOMAIN cat_shape : cat_shape[i]}

\* SMOTENC indexes X with the positions the mask marks categorical and with
\* the remaining positions of X: it raises when a marked position lies
\* outside X or when no position of X is left as continuous.
SmotencAcceptsMask(marked, X) ==
    /\ marked \subseteq 1..NCols(X)
    /\ (1..NCols(X)) \ marked # {}

Classes(y) == {y[r] : r \in DOMAIN y}
MajorityCount(y) ==
    CHOOSE m \in {ClassCount(y, c) : c \in Classes(y)} :
        \A c \in Classes(y) : ClassCount(y, c) <= m

\* Classes SMOTENC oversamples: all but the largest.
Oversampled(y) == {c \in Classes(y) : ClassCount(y, c) < MajorityCount(y)}

\* The neighbour search needs more than k_neighbors rows of the class.
SmotencHasNeighbours(y) == \A c \in Oversampled(y) : ClassCount(y, c) > k_neighbors

SmotencRaises(marked, X, y) == ~SmotencAcceptsMask(marked, X) \/ ~SmotencHasNeighbours(y)

RECURSIVE Repeat(_, _)
Repeat(v, n) == IF n <= 0 THEN <<>> ELSE <<v>> \o Repeat(v, n - 1)

\* The classes of the synthetic rows, in the order SMOTENC appends them.
RECURSIVE SyntheticLabels(_, _)
SyntheticLabels(y, cs) ==
    IF cs = {} THEN <<>>
    ELSE LET c == CHOOSE x \in cs : \A z \in cs : x <= z
         IN  Repeat(c, MajorityCount(y) - ClassCount(y, c))
                \o SyntheticLabels(y, cs \ {c})

\* fit_resample: the original rows followed by synthetic rows.  The values
\* of a synthetic row are drawn by interpolation and are not modelled: the
\* resampled matrix keeps the original matrix and the number of added rows.
ResampleX(X, y) == [columns |-> X.columns, values |-> X.values,
                    synthetic |-> Len(SyntheticLabels(y, Oversampled(y)))]
ResampleY(y) == y \o SyntheticLabels(y, Oversampled(y))

Application(label, mask, X) ==
    [label |-> label, categorical_features |-> mask, columns |-> X.columns]

BalanceStart ==
    /\ bal_pc = "idle"
    /\ build_pc[1] = "returned"
    /\ bal_pc' = "loop"
    /\ bal_i' = 0
    /\ train_series_dic_bal' = [n \in Labels |-> None]
    /\ y_dic_bal' = [n \in Labels |-> None]
    /\ UNCHANGED <<smote_log, notBal>>

\* One iteration of the loop over out_names, on the matrices of call 1.
BalanceLabel ==
    /\ bal_pc = "loop"
    /\ bal_i < Len(out_names)
    /\ LET label == out_names[bal_i + 1]
           X_imb == Get(train_series_dic[1][label])
           y_imb == y_train[label]
       IN  /\ smote_log' = Append(smote_log, Application(label, cat_shape, X_imb))
           /\ IF SmotencRaises(categorical_features, X_imb, y_imb)
              THEN /\ bal_pc' = "raised"
                   /\ UNCHANGED <<train_series_dic_bal, y_dic_bal, bal_i>>
              ELSE /\ train_series_dic_bal' =
                        [train_series_dic_bal EXCEPT ![label] = Some(ResampleX(X_imb, y_imb))]
                   /\ y_dic_bal' = [y_dic_bal EXCEPT ![label] = Some(ResampleY(y_imb))]
                   /\ bal_i' = bal_i + 1
                   /\ UNCHANGED bal_pc
    /\ UNCHANGED notBal

BalanceReturn ==
    /\ bal_pc = "loop"
    /\ bal_i = Len(out_names)
    /\ bal_pc' = "returned"
    /\ UNCHANGED <<train_series_dic_bal, y_dic_bal, bal_i, smote_log, notBal>>

(***************************************************************************)
(* Cross-validation and fitting on one label: grid_search, random_search,  *)
(* cv_report and the per-label body of test_score_multi_report             *)
(***************************************************************************)
SearchOps == {"grid_search", "random_search"}
CVOps == SearchOps \cup {"cv_report"}
AllOps == CVOps \cup {"test_score_multi_report"}

\* The target vector restricted to the rows in S.
YOf(y, S) == [r \in S |-> y[r]]

\* imblearn's make_pipeline: a sampler stage resamples when the pipeline
\* is fitted and is passed over when the pipeline predicts.
make_pipeline_ResampleAlways(steps) == [steps |-> steps, resample_on |-> {"fit", "predict"}]

make_pipeline(steps) == [steps |-> steps, resample_on |-> {"fit"}]

BareEstimator(m) == [steps |-> <<m>>, resample_on |-> {}]

\* if balancing: make_pipeline(smotenc, model) else: model
Estimator(bal, m) ==
    IF bal THEN make_pipeline(<<"smotenc", m>>) ELSE BareEstimator(m)

HasSampler(est) == \E i \in 1..Len(est.steps) : est.steps[i] = "smotenc"
FinalStep(est) == est.steps[Len(est.steps)]

Event(kind, phase, cand, fold, rows) ==
    [kind |-> kind, phase |-> phase, cand |-> cand, fold |-> fold, rows |-> rows]

\* A model family that refuses a training set with a single class.
NeedsTwoClasses(m) == m \in {"SVC", "VotingClassifier"}

FitRaises(est, X, y, rows) ==
    \/ HasSampler(est) /\ "fit" \in est.resample_on
          /\ SmotencRaises(categorical_features, X, YOf(y, rows))
    \/ NeedsTwoClasses(FinalStep(est)) /\ Cardinality(Classes(YOf(y, rows))) < 2

\* estimator.fit(rows): the sampler is run on the rows, then the model is
\* fitted on what the sampler returns.
FitEvents(est, X, y, phase, cand, fold, rows) ==
    IF HasSampler(est) /\ "fit" \in est.resample_on
    THEN <<Event("fit_resample", phase, cand, fold, rows)>>
            \o (IF SmotencRaises(categorical_features, X, YOf(y, rows)) THEN <<>>
                ELSE <<Event("fit", phase, cand, fold, rows)>>)
    ELSE <<Event("fit", phase, cand, fold, rows)>>

\* estimator.predict(rows) or estimator.predict_proba(rows)
PredictEvents(est, method, phase, cand, fold, rows) ==
    (IF HasSampler(est) /\ "predict" \in est.resample_on
     THEN <<Event("fit_resample", phase, cand, fold, rows)>> ELSE <<>>)
        \o <<Event(method, phase, cand, fold, rows)>>

\* StratifiedKFold(n_splits).split: every class is cut, in row order, into
\* n_splits consecutive blocks whose sizes differ by at most one; a class with
\* fewer than n_splits rows leaves the last blocks empty.
PositionInClass(y, r) == Cardinality({q \in 1..(r - 1) : y[q] = y[r]})

BlockStart(count, splits, f) ==
    (f - 1) * (count \div splits)
        + (IF f - 1 <= count % splits THEN f - 1 ELSE count % splits)

FoldOfPosition(pos, count, splits) ==
    CHOOSE f \in 1..splits :
        BlockStart(count, splits, f) <= pos /\ pos < BlockStart(count, splits, f + 1)

StratifiedKFold(y, splits) ==
    [r \in 1..Len(y) |->
        FoldOfPosition(PositionInClass(y, r), ClassCount(y, y[r]), splits)]

\* split raises only when n_splits exceeds the size of every class; when it
\* exceeds the size of the smallest class alone it warns and goes on.
StratifiedKFoldRaises(y, splits) ==
    \A c \in Classes(y) : splits > ClassCount(y, c)

TrainRows(folds, f) == {r \in DOMAIN folds : folds[r] # f}
ValidationRows(folds, f) == {r \in DOMAIN folds : folds[r] = f}

\* The scorers of a call, and the estimator methods they use.
SearchScoring == {"f1"}
scoring_metrics ==
    {"f1_micro", "f1_macro", "f1", "roc_auc", "recall", "precision", "average_precision"}
Scoring(op) == IF op \in SearchOps THEN SearchScoring ELSE scoring_metrics
ThresholdScorers == {"roc_auc", "average_precision"}

ScoreEvents(est, scoring, phase, cand, fold, rows) ==
    (IF scoring \ ThresholdScorers # {}
     THEN PredictEvents(est, "predict", phase, cand, fold, rows) ELSE <<>>)
    \o (IF scoring \cap ThresholdScorers # {}
        THEN PredictEvents(est, "predict_proba", phase, cand, fold, rows) ELSE <<>>)

\* The area under the ROC curve is undefined, and raises, on rows of one class.
ScoreRaises(scoring, yrows) ==
    "roc_auc" \in scoring /\ Cardinality(Classes(yrows)) < 2

AllRows == 1..Len(y_label)

\* The estimator is composed and, for a cross-validated call, the folds are cut.
CVStart ==
    /\ cv_pc = "idle"
    /\ estimator' = Some(Estimator(balancing, model))
    /\ IF cv_op = "test_score_multi_report"
       THEN cv_pc' = "heldout" /\ UNCHANGED test_folds
       ELSE IF StratifiedKFoldRaises(y_label, n_splits)
            THEN cv_pc' = "raised" /\ UNCHANGED test_folds
            ELSE /\ test_folds' = Some(StratifiedKFold(y_label, n_splits))
                 /\ cv_pc' = "cv"
    /\ UNCHANGED <<cv_op, X_train, y_label, X_test_rows, y_test_label, balancing,
                   n_splits, model, n_candidates, verbose, test_given, cv_next, events>>
    /\ UNCHANGED notCV

\* One configuration is fitted on the training rows of one fold and scored
\* on the fold's validation rows.
CVFold ==
    /\ cv_pc = "cv"
    /\ cv_next < n_candidates * n_splits
    /\ LET cand == (cv_next \div n_splits) + 1
           fold == (cv_next % n_splits) + 1
           est == Get(estimator)
           train == TrainRows(Get(test_folds), fold)
           val == ValidationRows(Get(test_folds), fold)
           fitFails == FitRaises(est, X_train, y_label, train)
       IN  /\ events' = events
                \o FitEvents(est, X_train, y_label, "cv", cand, fold, train)
                \o (IF fitFails THEN <<>>
                    ELSE ScoreEvents(est, Scoring(cv_op), "cv", cand, fold, val))
           /\ IF fitFails \/ ScoreRaises(Scoring(cv_op), YOf(y_label, val))
              THEN cv_pc' = "raised" /\ UNCHANGED cv_next
              ELSE cv_next' = cv_next + 1 /\ UNCHANGED cv_pc
    /\ UNCHANGED <<cv_op, X_train, y_label, X_test_rows, y_test_label, balancing,
                   n_splits, model, n_candidates, verbose, test_given, estimator,
                   test_folds>>
    /\ UNCHANGED notCV

\* A search refits the best configuration on all training rows, prints when
\* verbose and returns; `if X_test and y_test` raises on a DataFrame.
SearchFinish ==
    /\ cv_pc = "cv"
    /\ cv_op \in SearchOps
    /\ cv_next = n_candidates * n_splits
    /\ LET est == Get(estimator)
       IN  /\ events' = events
                \o FitEvents(est, X_train, y_label, "refit", 0, 0, AllRows)
           /\ cv_pc' = IF \/ FitRaises(est, X_train, y_label, AllRows)
                          \/ (verbose /\ test_given)
                       THEN "raised" ELSE "returned"
    /\ UNCHANGED <<cv_op, X_train, y_label, X_test_rows, y_test_label, balancing,
                   n_splits, model, n_candidates, verbose, test_given, estimator,
                   test_folds, cv_next>>
    /\ UNCHANGED notCV

\* cv_report averages the fold scores and returns them.
ReportFinish ==
    /\ cv_pc = "cv"
    /\ cv_op = "cv_report"
    /\ cv_next = n_candidates * n_splits
    /\ cv_pc' = "returned"
    /\ UNCHANGED <<cv_op, X_train, y_label, X_test_rows, y_test_label, balancing,
                   n_splits, model, n_candidates, verbose, test_given, estimator,
                   test_folds, cv_next, events>>
    /\ UNCHANGED notCV

\* test_score_multi_report fits on the label's training rows ...
HeldOutFit ==
    /\ cv_pc = "heldout"
    /\ LET est == Get(estimator)
       IN  /\ events' = events
                \o FitEvents(est, X_train, y_label, "heldout", 0, 0, AllRows)
           /\ cv_pc' = IF FitRaises(est, X_train, y_label, AllRows)
                       THEN "raised" ELSE "fitted"
    /\ UNCHANGED <<cv_op, X_train, y_label, X_test_rows, y_test_label, balancing,
                   n_splits, model, n_candidates, verbose, test_given, estimator,
                   test_folds, cv_next>>
    /\ UNCHANGED notCV

\* ... and score_report predicts on the held-out rows.
HeldOutScore ==
    /\ cv_pc = "fitted"
    /\ LET est == Get(estimator)
       IN  /\ events' = events
                \o PredictEvents(est, "predict", "heldout", 0, 0, X_test_rows)
                \o PredictEvents(est, "predict_proba", "heldout", 0, 0, X_test_rows)
           /\ cv_pc' = IF Cardinality({y_test_label[r] : r \in X_test_rows}) < 2
                       THEN "raised" ELSE "returned"
    /\ UNCHANGED <<cv_op, X_train, y_label, X_test_rows, y_test_label, balancing,
                   n_splits, model, n_candidates, verbose, test_given, estimator,
                   test_folds, cv_next>>
    /\ UNCHANGED notCV

(***************************************************************************)
(* Parameter grids, GridSearchCV and RandomizedSearchCV                    *)
(***************************************************************************)
Families == {"SVC", "RF", "XGB"}

\* The hyperparameters of a family that the reports set, in sorted order.
ParamNames(m) ==
    CASE m = "SVC" -> <<"C", "gamma", "kernel">>
      [] m = "RF"  -> <<"bootstrap", "max_depth", "max_features",
                        "min_samples_leaf", "min_samples_split", "n_estimators">>
      [] m = "XGB" -> <<"colsample_bytree", "eta", "gamma", "max_depth",
                        "min_child_weight", "subsample">>

\* make_pipeline names a step after its class, in lower case.
StepName(m) ==
    CASE m = "SVC" -> "svc"
      [] m = "RF"  -> "randomforestclassifier"
      [] m = "XGB" -> "xgbclassifier"

StepKey(m, name) == StepName(m) \o "__" \o name

\* The parameter names set_params accepts: those of the model or, for a
\* pipeline, those of the model behind the name of its step.
ValidKeys(est) ==
    LET m == FinalStep(est)
        names == {ParamNames(m)[i] : i \in 1..Len(ParamNames(m))}
    IN  IF HasSampler(est) THEN {StepKey(m, name) : name \in names} ELSE names

\* A parameter grid is a dict of lists; its items are kept sorted by key, as
\* ParameterGrid sorts them.  The candidates are the product of the lists,
\* the last key varying fastest.
RECURSIVE ParameterGrid(_)
ParameterGrid(grid) ==
    IF Len(grid) = 0 THEN <<>>
    ELSE LET h == Head(grid)
             rest == ParameterGrid(Tail(grid))
         IN  IF Len(grid) = 1
             THEN [i \in 1..Len(h.values) |-> (h.key :> h.values[i])]
             ELSE [i \in 1..(Len(h.values) * Len(rest)) |->
                      (h.key :> h.values[((i - 1) \div Len(rest)) + 1])
                          @@ rest[((i - 1) % Len(rest)) + 1]]

\* A grid with an empty list is refused.
GridRaises(grid) == \E i \in 1..Len(grid) : Len(grid[i].values) = 0

\* numpy's global generator: a state, the integer it yields in 0..max and
\* the state that follows.
RandomInterval(rng, max) == rng % (max + 1)
Advance(rng) == (rng + 1) % RngPeriod

Swap(x, i, j) == [x EXCEPT ![i] = x[j], ![j] = x[i]]

\* RandomState.shuffle: from the last position down to the second, swap the
\* position with a drawn position not after it.  Yields <<x, rng>>.
RECURSIVE shuffle(_, _, _)
shuffle(x, i, rng) ==
    IF i < 2 THEN <<x, rng>>
    ELSE shuffle(Swap(x, i, RandomInterval(rng, i - 1) + 1), i - 1, Advance(rng))

permutation(n, rng) == shuffle([i \in 1..n |-> i], n, rng)

\* Reservoir sampling: the first n_samples positions, each later position i
\* replacing a drawn one when the draw falls inside the reservoir.
RECURSIVE reservoir_sampling(_, _, _, _)
reservoir_sampling(out, i, n_population, rng) ==
    IF i > n_population THEN <<out, rng>>
    ELSE LET j == RandomInterval(rng, i - 1) + 1
         IN  reservoir_sampling(IF j <= Len(out) THEN [out EXCEPT ![j] = i] ELSE out,
                                i + 1, n_population, Advance(rng))

\* sample_without_replacement(n_population, n_samples): a prefix of a
\* permutation when the ratio lies strictly between 0.01 and 0.99, and
\* otherwise (here: all of the population) the reservoir.
sample_without_replacement(n_population, n_samples, rng) ==
    IF 100 * n_samples > n_population /\ 100 * n_samples < 99 * n_population
    THEN LET perm == permutation(n_population, rng)
         IN  <<[i \in 1..n_samples |-> perm[1][i]], perm[2]>>
    ELSE reservoir_sampling([i \in 1..n_samples |-> i], n_samples + 1, n_population, rng)

\* ParameterSampler over a grid of lists: n_iter candidates of the grid, or
\* all of them, without replacement.  Yields [params, rng].
ParameterSampler(grid, iters, rng) ==
    LET param_grid == ParameterGrid(grid)
        grid_size == Len(param_grid)
        drawn == sample_without_replacement(grid_size,
                     IF grid_size < iters THEN grid_size ELSE iters, rng)
    IN  [params |-> [i \in 1..Len(drawn[1]) |-> param_grid[drawn[1][i]]],
         rng    |-> drawn[2]]

\* The mean validation score of a configuration: a function of the data, of
\* the estimator and of the configuration (every seeded component being
\* handed the same random_state), not modelled beyond that.
RECURSIVE ParamSum(_, _)
ParamSum(params, keys) ==
    IF keys = {} THEN 0
    ELSE LET key == CHOOSE x \in keys : TRUE
         IN  params[key] + ParamSum(params, keys \ {key})

mean_test_score(est, X, y, params) ==
    ((1 + ((X.tag + ClassCount(y, 1) + Len(est.steps)) % 2))
        * ParamSum(params, DOMAIN params)) % ScoreLevels

\* best_index_: the first configuration of rank one.
best_index_(means) ==
    CHOOSE i \in 1..Len(means) :
        /\ \A j \in 1..Len(means) : means[j] <= means[i]
        /\ \A j \in 1..(i - 1) : means[j] < means[i]

\* Whether cross-validation raises: folds that cannot be cut, or a fit or a
\* score that fails in a fold.  Fitting a search raises on these, on a
\* refused grid, on a name the estimator does not have and on the refit on
\* all rows.
CrossValidateRaises(est, X, y, splits, scoring) ==
    \/ StratifiedKFoldRaises(y, splits)
    \/ LET folds == StratifiedKFold(y, splits)
       IN  \E f \in 1..splits :
              \/ FitRaises(est, X, y, TrainRows(folds, f))
              \/ ScoreRaises(scoring, YOf(y, ValidationRows(folds, f)))

SearchFitRaises(est, X, y, grid, splits) ==
    \/ GridRaises(grid)
    \/ \E i \in 1..Len(grid) : grid[i].key \notin ValidKeys(est)
    \/ CrossValidateRaises(est, X, y, splits, SearchScoring)
    \/ FitRaises(est, X, y, 1..Len(y))

\* What a search leaves behind: whether it raised and, if not, cv_results_
\* and best_params_; for a random search the generator's state as well.
SearchResult(raised, params, means, rng) ==
    [raised |-> raised,
     cv_results_ |-> IF raised THEN None
                     ELSE Some([params |-> params, mean_test_score |-> means]),
     best_params |-> IF raised THEN None ELSE Some(params[best_index_(means)]),
     rng |-> rng]

Evaluate(est, X, y, params) ==
    [i \in 1..Len(params) |-> mean_test_score(est, X, y, params[i])]

grid_search(X, y, m, grid, bal, splits, vb, tg, rng) ==
    LET est == Estimator(bal, m)
        params == ParameterGrid(grid)
    IN  SearchResult(SearchFitRaises(est, X, y, grid, splits) \/ (vb /\ tg),
                     params, Evaluate(est, X, y, params), rng)

\* RandomizedSearchCV is given no random_state: its sampler draws from
\* numpy's global generator.
random_search(X, y, m, grid, bal, iters, splits, vb, tg, rng) ==
    LET est == Estimator(bal, m)
        sampled == ParameterSampler(grid, iters, rng)
    IN  SearchResult(SearchFitRaises(est, X, y, grid, splits) \/ (vb /\ tg),
                     sampled.params, Evaluate(est, X, y, sampled.params), sampled.rng)

(***************************************************************************)
(* multi_label_grid_search and multi_label_random_search                   *)
(***************************************************************************)
\* params_to_test[label]: the grid handed to the search of a label
LabelGrid_OfFirstLabel(c, label) == params_to_test[c][out_names[1]]

LabelGrid(c, label) == params_to_test[c][label]

\* `if X_test and y_test` on the arguments: None is false, X_test (a dict with
\* one matrix per label) is true unless there is no label, the truth value of
\* a DataFrame is a ValueError.
TruthRaises(held_out) == held_out = "frame" /\ out_names # <<>>

\* The dictionary and the test of X_test and y_test.  The second call starts
\* when the first is over.
MultiStart(c) ==
    /\ ms_pc[c] = "idle"
    /\ \A d \in 1..(c - 1) : ms_pc[d] \in {"returned", "raised"}
    /\ best_params_by_label' = [best_params_by_label EXCEPT ![c] = [n \in Labels |-> None]]
    /\ ms_i' = [ms_i EXCEPT ![c] = 0]
    /\ ms_pc' = [ms_pc EXCEPT ![c] = IF TruthRaises(ms_y_test[c]) THEN "raised" ELSE "loop"]
    /\ UNCHANGED <<search_kind, X_train_dic, params_to_test, n_iter, np_seed, ms_verbose,
                   ms_y_test, np_random, cv_results_>>
    /\ UNCHANGED notSearch

\* The loop with a handler around the search: a failing label is left without
\* an entry and the loop goes on (the source has no such handler).
MultiLabel_ContinueOnError(c) ==
    /\ ms_pc[c] = "loop"
    /\ ms_i[c] < Len(out_names)
    /\ LET label == out_names[ms_i[c] + 1]
           found == IF search_kind = "grid"
                    THEN grid_search(X_train_dic[c][label], y_train[label], model,
                                     LabelGrid(c, label), balancing, n_splits,
                                     ms_verbose[c], ms_y_test[c] = "dict",
                                     np_random[c])
                    ELSE random_search(X_train_dic[c][label], y_train[label], model,
                                       LabelGrid(c, label), balancing, n_iter,
                                       n_splits, ms_verbose[c], ms_y_test[c] = "dict",
                                       np_random[c])
       IN  /\ np_random' = [np_random EXCEPT ![c] = found.rng]
           /\ cv_results_' = [cv_results_ EXCEPT ![c][label] = found.cv_results_]
           /\ best_params_by_label' =
                  [best_params_by_label EXCEPT ![c][label] =
                       IF found.raised THEN None ELSE found.best_params]
           /\ ms_i' = [ms_i EXCEPT ![c] = ms_i[c] + 1]
           /\ UNCHANGED ms_pc
    /\ UNCHANGED <<search_kind, X_train_dic, params_to_test, n_iter, np_seed, ms_verbose,
                   ms_y_test>>
    /\ UNCHANGED notSearch

\* One iteration of the loop over out_names: the label's search, whose
\* exception, if any, leaves the function.
MultiLabel(c) ==
    /\ ms_pc[c] = "loop"
    /\ ms_i[c] < Len(out_names)
    /\ LET label == out_names[ms_i[c] + 1]
           found == IF search_kind = "grid"
                    THEN grid_search(X_train_dic[c][label], y_train[label], model,
                                     LabelGrid(c, label), balancing, n_splits,
                                     ms_verbose[c], ms_y_test[c] = "dict",
                                     np_random[c])
                    ELSE random_search(X_train_dic[c][label], y_train[label], model,
                                       LabelGrid(c, label), balancing, n_iter,
                                       n_splits, ms_verbose[c], ms_y_test[c] = "dict",
                                       np_random[c])
       IN  /\ np_random' = [np_random EXCEPT ![c] = found.rng]
           /\ cv_results_' = [cv_results_ EXCEPT ![c][label] = found.cv_results_]
           /\ IF found.raised
              THEN /\ ms_pc' = [ms_pc EXCEPT ![c] = "raised"]
                   /\ UNCHANGED <<best_params_by_label, ms_i>>
              ELSE /\ best_params_by_label' =
                        [best_params_by_label EXCEPT ![c][label] = found.best_params]
                   /\ ms_i' = [ms_i EXCEPT ![c] = ms_i[c] + 1]
                   /\ UNCHANGED ms_pc
    /\ UNCHANGED <<search_kind, X_train_dic, params_to_test, n_iter, np_seed, ms_verbose,
                   ms_y_test>>
    /\ UNCHANGED notSearch

MultiReturn(c) ==
    /\ ms_pc[c] = "loop"
    /\ ms_i[c] = Len(out_names)
    /\ ms_pc' = [ms_pc EXCEPT ![c] = "returned"]
    /\ UNCHANGED <<search_kind, X_train_dic, params_to_test, n_iter, np_seed, ms_verbose,
                   ms_y_test, np_random,
                   best_params_by_label, cv_results_, ms_i>>
    /\ UNCHANGED notSearch

(***************************************************************************)
(* Reports: cv_report, score_report, cv_multi_report and                   *)
(* test_score_multi_report                                                 *)
(***************************************************************************)
Reports == {"cv_multi_report", "test_score_multi_report"}

\* A score: the metric and what it is computed from, the predicted labels
\* or the continuous scores of the estimator.
Score(metric, input) == [metric |-> metric, input |-> input]

\* The dict cv_report returns (its means): sklearn's scorers of the same
\* names, averaged over the folds.
cv_report ==
    [f1_micr_score  |-> Score("f1_micro", "labels"),
     f1_macro_score |-> Score("f1_macro", "labels"),
     f1_score       |-> Score("f1", "labels"),
     auc_score      |-> Score("roc_auc", "scores"),
     rec_score      |-> Score("recall", "labels"),
     prec_score     |-> Score("precision", "labels"),
     avp_score      |-> Score("average_precision", "scores")]

\* The dict score_report returns; roc_auc_score is given y_pred.
score_report ==
    [f1_micr_score  |-> Score("f1_micro", "labels"),
     f1_macro_score |-> Score("f1_macro", "labels"),
     f1_s_score     |-> Score("f1", "labels"),
     auc_score      |-> Score("roc_auc", "labels"),
     rec_score      |-> Score("recall", "labels"),
     prec_score     |-> Score("precision", "labels"),
     prec_rec_score |-> Score("average_precision", "scores")]

\* The columns a report is created with ...
ReportColumns(f) ==
    IF f = "cv_multi_report"
    THEN <<"F1 Binary", "F1 Micro", "F1 Macro", "ROC_AUC", "Recall", "Precision",
           "Average Precision">>
    ELSE <<"F1 Binary", "F1 Micro", "F1 Macro", "ROC_AUC", "Recall", "Precision">>

\* ... and the assignments report.loc[name, column] = scores[key], in order.
RowWrites(f) ==
    IF f = "cv_multi_report"
    THEN <<[column |-> "F1 Micro", key |-> "f1_micr_score"],
           [column |-> "F1 Macro", key |-> "f1_macro_score"],
           [column |-> "F1 Binary", key |-> "f1_score"],
           [column |-> "ROC_AUC", key |-> "auc_score"],
           [column |-> "Recall", key |-> "rec_score"],
           [column |-> "Precision", key |-> "prec_score"],
           [column |-> "Average Precision", key |-> "avp_score"]>>
    ELSE <<[column |-> "F1 Micro", key |-> "f1_micr_score"],
           [column |-> "F1 Macro", key |-> "f1_macro_score"],
           [column |-> "F1 Binary", key |-> "f1_s_score"],
           [column |-> "ROC_AUC", key |-> "auc_score"],
           [column |-> "Recall", key |-> "rec_score"],
           [column |-> "Precision", key |-> "prec_score"],
           [column |-> "Average Prec-Rec", key |-> "prec_rec_score"]>>

\* pd.DataFrame(columns=..., index=out_names): every cell is NaN (None).
EmptyReport(columns) ==
    [columns |-> columns,
     index   |-> out_names,
     cells   |-> [n \in Labels |->
                     [c \in {columns[i] : i \in 1..Len(columns)} |-> None]]]

\* df.loc[name, column] = v: a column the table lacks is appended, NaN in
\* every other row.
SetCell(df, name, column, v) ==
    LET wide == IF column \in ColumnSet(df) THEN df
                ELSE [df EXCEPT !.columns = Append(df.columns, column),
                                !.cells = [n \in Labels |->
                                              [c \in ColumnSet(df) \cup {column} |->
                                                  IF c = column THEN None
                                                  ELSE df.cells[n][c]]]]
    IN  [wide EXCEPT !.cells[name][column] = Some(v)]

RECURSIVE WriteRow(_, _, _, _)
WriteRow(df, name, scores, writes) ==
    IF writes = <<>> THEN df
    ELSE WriteRow(SetCell(df, name, writes[1].column, scores[writes[1].key]),
                  name, scores, Tail(writes))

\* spec_params as the caller passes it: nothing, the map the search (call 1)
\* returned, or the list of three such maps, in the order SVC, RF, XGB, that
\* the voting branch of cv_multi_report reads.
FamilyOrder == <<"SVC", "RF", "XGB">>

FullParams(m) ==
    [key \in {StepKey(m, ParamNames(m)[i]) : i \in 1..Len(ParamNames(m))} |-> 1]

spec_params ==
    CASE spec_params_form = "none" -> None
      [] spec_params_form = "map" ->
            Some([n \in Labels |-> Get(best_params_by_label[1][n])])
      [] spec_params_form = "list" ->
            Some([j \in 1..Len(FamilyOrder) |->
                    [n \in Labels |-> FullParams(FamilyOrder[j])]])

\* set_params(p = stored["<step>__p"], ...) for the parameters of family m:
\* None when a key is missing from the stored configuration (KeyError).
Rebuild(m, stored) ==
    LET names == {ParamNames(m)[i] : i \in 1..Len(ParamNames(m))}
    IN  IF \A name \in names : StepKey(m, name) \in DOMAIN stored
        THEN Some([name \in names |-> stored[StepKey(m, name)]])
        ELSE None

\* The branch on modelname[name]: the estimator that is built, or how the
\* iteration ends instead.  cv_multi_report has a voting branch,
\* test_score_multi_report has none.
ModelTemp(f, name) ==
    LET tag == modelname[name]
        given == Get(spec_params)
    IN  IF tag \in Families
        THEN IF spec_params_form = "list"
             THEN [outcome |-> "TypeError", estimator |-> None]
             ELSE IF IsNone(Rebuild(tag, given[name]))
                  THEN [outcome |-> "KeyError", estimator |-> None]
                  ELSE [outcome |-> "built",
                        estimator |-> Some([family |-> tag,
                                            params |-> Get(Rebuild(tag, given[name]))])]
        ELSE IF tag = "VotingClassifier" /\ f = "cv_multi_report"
        THEN IF spec_params_form = "map"
             THEN [outcome |-> "KeyError", estimator |-> None]
             ELSE IF \E j \in 1..Len(FamilyOrder) :
                        IsNone(Rebuild(FamilyOrder[j], given[j][name]))
                  THEN [outcome |-> "KeyError", estimator |-> None]
                  ELSE [outcome |-> "built",
                        estimator |-> Some([family |-> tag,
                                            params |-> [j \in 1..Len(FamilyOrder) |->
                                                Get(Rebuild(FamilyOrder[j], given[j][name]))]])]
        ELSE [outcome |-> "abort", estimator |-> None]

\* score_report raises when the held-out rows hold one class (roc_auc_score).
ScoreReportRaises(yt) == Cardinality(Classes(yt)) < 2

\* Whether evaluating the estimator of family m for a label raises.
EvaluationRaises(f, m, name) ==
    LET est == Estimator(balancing, m)
        X == X_train_dic[1][name]
        y == y_train[name]
    IN  IF f = "cv_multi_report"
        THEN CrossValidateRaises(est, X, y, n_splits, scoring_metrics)
        ELSE FitRaises(est, X, y, 1..Len(y)) \/ ScoreReportRaises(y_test[name])

\* The object whose fit method runs for a label.  cross_validate fits clones
\* of the estimator it is given, one per fold; the held-out report calls fit
\* on model_temp, built anew for the label, or on the caller's model itself,
\* bare or as the last step of a new pipeline.
FittedObject(f, name) ==
    IF f = "cv_multi_report" THEN <<"clone", name>>
    ELSE IF IsNone(spec_params) THEN <<"model">>
    ELSE <<"model_temp", name>>

\* A report starts when the search is over (and has returned, if its map is
\* what is passed); the held-out report starts when the other is over.
ReportStart(f) ==
    /\ rep_pc[f] = "idle"
    /\ ms_pc[1] \in {"returned", "raised"}
    /\ spec_params_form = "map" => ms_pc[1] = "returned"
    /\ f = "test_score_multi_report" => rep_pc["cv_multi_report"] \notin {"idle", "loop"}
    /\ report' = [report EXCEPT ![f] = Some(EmptyReport(ReportColumns(f)))]
    /\ rep_i' = [rep_i EXCEPT ![f] = 0]
    /\ rep_pc' = [rep_pc EXCEPT ![f] = "loop"]
    /\ UNCHANGED <<modelname, spec_params_form, y_test, model_temp, fitted, rep_error>>
    /\ UNCHANGED notReport

\* One iteration of the loop over out_names: the estimator is built from
\* spec_params, or the shared model is taken; it is evaluated; the label's
\* row is written.
ReportLabel(f) ==
    /\ rep_pc[f] = "loop"
    /\ rep_i[f] < Len(out_names)
    /\ LET name == out_names[rep_i[f] + 1]
           built == IF IsNone(spec_params)
                    THEN [outcome |-> "shared", estimator |-> None]
                    ELSE ModelTemp(f, name)
           family == IF IsNone(spec_params) THEN model ELSE modelname[name]
           scores == IF f = "cv_multi_report" THEN cv_report ELSE score_report
       IN  /\ model_temp' = [model_temp EXCEPT ![f][name] = built.estimator]
           /\ IF built.outcome = "abort"
              THEN /\ rep_pc' = [rep_pc EXCEPT ![f] = "returned_none"]
                   /\ UNCHANGED <<report, fitted, rep_i, rep_error>>
              ELSE IF built.outcome \in {"KeyError", "TypeError"}
              THEN /\ rep_pc' = [rep_pc EXCEPT ![f] = "raised"]
                   /\ rep_error' = [rep_error EXCEPT ![f] = Some(built.outcome)]
                   /\ UNCHANGED <<report, fitted, rep_i>>
              ELSE IF EvaluationRaises(f, family, name)
              THEN /\ rep_pc' = [rep_pc EXCEPT ![f] = "raised"]
                   /\ rep_error' = [rep_error EXCEPT ![f] = Some("ValueError")]
                   /\ UNCHANGED <<report, fitted, rep_i>>
              ELSE /\ report' = [report EXCEPT ![f] =
                                   Some(WriteRow(Get(report[f]), name, scores, RowWrites(f)))]
                   /\ fitted' = [fitted EXCEPT ![f][name] = Some(FittedObject(f, name))]
                   /\ rep_i' = [rep_i EXCEPT ![f] = rep_i[f] + 1]
                   /\ UNCHANGED <<rep_pc, rep_error>>
    /\ UNCHANGED <<modelname, spec_params_form, y_test>>
    /\ UNCHANGED notReport

\* report.apply(pd.to_numeric) and return: the cells are floats already.
ReportReturn(f) ==
    /\ rep_pc[f] = "loop"
    /\ rep_i[f] = Len(out_names)
    /\ rep_pc' = [rep_pc EXCEPT ![f] = "returned"]
    /\ UNCHANGED <<modelname, spec_params_form, y_test, report, model_temp, fitted,
                   rep_i, rep_error>>
    /\ UNCHANGED notReport

(***************************************************************************)
(* The per-label loops and the worker pool                                 *)
(***************************************************************************)
Loops == {"multi_label_grid_search", "multi_label_random_search",
          "cv_multi_report", "test_score_multi_report"}

\* The fits a label needs: one per candidate and fold in a search, one per
\* fold in cv_report, one in the held-out report.
Candidates(op) ==
    IF op \in {"multi_label_grid_search", "multi_label_random_search"}
    THEN n_candidates ELSE 1

Folds(op) == IF op = "test_score_multi_report" THEN 1 ELSE n_splits

Tasks(op, label) ==
    [t \in 1..(Candidates(op) * Folds(op)) |->
        [label |-> label,
         candidate |-> ((t - 1) \div Folds(op)) + 1,
         fold |-> ((t - 1) % Folds(op)) + 1]]

LoopStart ==
    /\ loop_pc = "idle"
    /\ loop_i' = 0
    /\ written' = <<>>
    /\ loop_pc' = "next"
    /\ UNCHANGED <<loop_op, n_jobs, queued, running, finished>>
    /\ UNCHANGED notLoop

\* The body of the loop calls fit or cross_validate for the next label: the
\* label's tasks are handed to the pool.
LoopDispatch ==
    /\ loop_pc = "next"
    /\ loop_i < Len(out_names)
    /\ queued' = Tasks(loop_op, out_names[loop_i + 1])
    /\ loop_pc' = "waiting"
    /\ UNCHANGED <<loop_op, n_jobs, running, finished, written, loop_i>>
    /\ UNCHANGED notLoop

\* A free worker takes the next task.
WorkerTake ==
    /\ queued # <<>>
    /\ Cardinality(running) < n_jobs
    /\ running' = running \cup {Head(queued)}
    /\ queued' = Tail(queued)
    /\ UNCHANGED <<loop_op, n_jobs, finished, written, loop_i, loop_pc>>
    /\ UNCHANGED notLoop

\* A worker completes its task; the workers complete in any order.
WorkerFinish ==
    /\ \E t \in running :
          /\ running' = running \ {t}
          /\ finished' = finished \cup {t}
    /\ UNCHANGED <<loop_op, n_jobs, queued, written, loop_i, loop_pc>>
    /\ UNCHANGED notLoop

\* The call returns without waiting for the pool.
LoopCollect_NoWait ==
    /\ loop_pc = "waiting"
    /\ written' = Append(written, out_names[loop_i + 1])
    /\ loop_i' = loop_i + 1
    /\ loop_pc' = "next"
    /\ UNCHANGED <<loop_op, n_jobs, queued, running, finished>>
    /\ UNCHANGED notLoop

\* fit or cross_validate returns when the pool has completed every task it
\* was handed; the label's entry or row is written after that.
LoopCollect ==
    /\ loop_pc = "waiting"
    /\ queued = <<>>
    /\ running = {}
    /\ written' = Append(written, out_names[loop_i + 1])
    /\ loop_i' = loop_i + 1
    /\ loop_pc' = "next"
    /\ UNCHANGED <<loop_op, n_jobs, queued, running, finished>>
    /\ UNCHANGED notLoop

LoopReturn ==
    /\ loop_pc = "next"
    /\ loop_i = Len(out_names)
    /\ loop_pc' = "returned"
    /\ UNCHANGED <<loop_op, n_jobs, queued, running, finished, written, loop_i>>
    /\ UNCHANGED notLoop

(***************************************************************************)
(* create_offside_df and get_smile_from_cid                                *)
(***************************************************************************)
\* A stitch id is "CID", a run of zeros and a number: <<zeros, number>>.
\* re.sub("^CID[0]*", "", cid) leaves the number.
Trim(cid) == cid[2]

\* oss_df.stitch_id.unique(): each id once, in order of first appearance
unique(rows) == Extend(<<>>, [i \in DOMAIN rows |-> rows[i].stitch_id], 1)

\* res.text.strip("\n") of the response to the request for a number: the
\* smile, or the body of the error response.
ResponseText(ct) ==
    IF responses[ct] = "ok" THEN <<"smile", ct>> ELSE <<"fault", ct>>

\* The smiles column, a zero column per name, and the ones of the rows whose
\* SOC is a name; the stitch_id column is dropped.
OffsideTable ==
    [i \in DOMAIN stitchs |->
        [smiles |-> Get(sti_to_smil[stitchs[i]]),
         socs |-> [name \in Labels |->
                     IF \E r \in DOMAIN oss :
                           oss[r].stitch_id = stitchs[i] /\ oss[r].SOC = name
                     THEN 1 ELSE 0]]]

\* read_csv and unique()
OffsideStart ==
    /\ off_pc = "idle"
    /\ stitchs' = unique(oss)
    /\ sti_to_smil' = [cid \in {oss[r].stitch_id : r \in DOMAIN oss} |-> None]
    /\ off_i' = 0
    /\ off_pc' = "lookups"
    /\ UNCHANGED <<oss, write, responses, stdout, mod_off, csv_out>>
    /\ UNCHANGED notOffside

\* get_smile_from_cid for the next stitch id of the dict comprehension.  The
\* request is made outside the try: a transport failure leaves both functions.
\* raise_for_status is inside it: an error status is printed and the body of
\* the response is returned.
OffsideLookup ==
    /\ off_pc = "lookups"
    /\ off_i < Len(stitchs)
    /\ LET cid == stitchs[off_i + 1]
           ct == Trim(cid)
       IN  IF responses[ct] = "connection_error"
           THEN /\ off_pc' = "raised"
                /\ UNCHANGED <<sti_to_smil, stdout, off_i>>
           ELSE /\ stdout' = IF responses[ct] = "http_error"
                               THEN Append(stdout, cid) ELSE stdout
                /\ sti_to_smil' = [sti_to_smil EXCEPT ![cid] = Some(ResponseText(ct))]
                /\ off_i' = off_i + 1
                /\ UNCHANGED off_pc
    /\ UNCHANGED <<oss, write, responses, stitchs, mod_off, csv_out>>
    /\ UNCHANGED notOffside

\* The table is built, written if asked, and returned.
OffsideReturn ==
    /\ off_pc = "lookups"
    /\ off_i = Len(stitchs)
    /\ mod_off' = Some(OffsideTable)
    /\ csv_out' = IF write THEN Some(OffsideTable) ELSE csv_out
    /\ off_pc' = "returned"
    /\ UNCHANGED <<oss, write, responses, stitchs, sti_to_smil, stdout, off_i>>
    /\ UNCHANGED notOffside

(***************************************************************************)
(* Inputs of the builder                                                   *)
(***************************************************************************)
DescName(j) == <<"desc", j>>
FpName(j) == <<"fp", j>>

\* The s-th descriptor table: column j holds (r * (s + j)) % (MaxVal + 1).
DescTable(s, ncols, nrows) ==
    [columns |-> [j \in 1..ncols |-> DescName(j)],
     values  |-> [j \in 1..ncols |->
                     [r \in 1..nrows |-> (r * (s + j)) % (MaxVal + 1)]]]

FpTable(s, width, nrows) ==
    [columns |-> [j \in 1..width |-> FpName(j)],
     values  |-> [j \in 1..width |-> [r \in 1..nrows |-> (r + j + s) % 2]]]

\* The target vector of label n: npos positive rows, placed by the shift.
Target(n, shift, npos, nrows) ==
    [r \in 1..nrows |-> IF ((r + n + shift) % nrows) < npos THEN 1 ELSE 0]

IdleBuildLocals ==
    /\ train_series_dic = [c \in Calls |-> [n \in Labels |-> None]]
    /\ test_series_dic = [c \in Calls |-> [n \in Labels |-> None]]
    /\ selected_name = [c \in Calls |-> [n \in Labels |-> None]]
    /\ build_i = [c \in Calls |-> 0]
    /\ build_pc = [c \in Calls |-> "idle"]

IdleBalance ==
    /\ train_series_dic_bal = [n \in Labels |-> None]
    /\ y_dic_bal = [n \in Labels |-> None]
    /\ bal_i = 0
    /\ bal_pc = "idle"
    /\ smote_log = <<>>

IdleCV ==
    /\ cv_op = "grid_search"
    /\ X_train = [columns |-> <<>>, index |-> {}]
    /\ y_label = <<>>
    /\ X_test_rows = {}
    /\ y_test_label = <<>>
    /\ balancing = FALSE
    /\ n_splits = 0
    /\ model = "SVC"
    /\ n_candidates = 0
    /\ verbose = FALSE
    /\ test_given = FALSE
    /\ estimator = None
    /\ test_folds = None
    /\ cv_next = 0
    /\ events = <<>>
    /\ cv_pc = "idle"

QuietSearch ==
    /\ ms_verbose = [c \in Calls |-> FALSE]
    /\ ms_y_test = [c \in Calls |-> "none"]

IdleSearch ==
    /\ search_kind = "grid"
    /\ QuietSearch
    /\ X_train_dic = [c \in Calls |-> [n \in Labels |-> Matrix(0, 0, 0)]]
    /\ params_to_test = [c \in Calls |-> [n \in Labels |-> <<>>]]
    /\ n_iter = 0
    /\ np_seed = [c \in Calls |-> 0]
    /\ np_random = [c \in Calls |-> 0]
    /\ best_params_by_label = [c \in Calls |-> [n \in Labels |-> None]]
    /\ cv_results_ = [c \in Calls |-> [n \in Labels |-> None]]
    /\ ms_i = [c \in Calls |-> 0]
    /\ ms_pc = [c \in Calls |-> "idle"]

IdleReport ==
    /\ modelname = [n \in Labels |-> "SVC"]
    /\ spec_params_form = "none"
    /\ y_test = [n \in Labels |-> <<>>]
    /\ report = [f \in Reports |-> None]
    /\ model_temp = [f \in Reports |-> [n \in Labels |-> None]]
    /\ fitted = [f \in Reports |-> [n \in Labels |-> None]]
    /\ rep_i = [f \in Reports |-> 0]
    /\ rep_pc = [f \in Reports |-> "idle"]
    /\ rep_error = [f \in Reports |-> None]

IdleSelect ==
    /\ selected = <<>>
    /\ sel_i = 0
    /\ sel_pc = "idle"

IdleOffside ==
    /\ oss = <<>>
    /\ write = FALSE
    /\ responses = <<>>
    /\ stitchs = <<>>
    /\ sti_to_smil = <<>>
    /\ stdout = <<>>
    /\ off_i = 0
    /\ off_pc = "idle"
    /\ mod_off = None
    /\ csv_out = None

IdleLoop ==
    /\ loop_op = "cv_multi_report"
    /\ n_jobs = 1
    /\ queued = <<>>
    /\ running = {}
    /\ finished = {}
    /\ written = <<>>
    /\ loop_i = 0
    /\ loop_pc = "idle"

InitBuild ==
    /\ out_names = AllNames
    /\ \E s \in 0..(NSeeds - 1) :
          /\ df_desc_base_train = DescTable(s, NDesc, NRows)
          /\ X_train_fp = FpTable(s, FpWidth, NRows)
    /\ df_desc_base_test \in
          [Calls -> {DescTable(s, n, NRows) :
                        s \in 0..(NSeeds - 1), n \in {NDesc - 1, NDesc}}]
    /\ X_test_fp = [c \in Calls |-> FpTable(c, FpWidth, NRows)]
    /\ \E shift \in 0..(NRows - 1) :
          y_train = [n \in Labels |-> Target(n, shift, 1, NRows)]
    /\ k \in 0..NDesc
    /\ IdleBuildLocals
    /\ IdleBalance
    /\ IdleCV
    /\ IdleSearch
    /\ IdleReport
    /\ IdleSelect
    /\ IdleOffside
    /\ IdleLoop

NextBuild ==
    \E c \in Calls : BuildStart(c) \/ BuildLabel(c) \/ BuildReturn(c)

SpecBuild == InitBuild /\ [][NextBuild]_vars

\* select_best_descriptors_multi on a descriptor table, for every k from
\* none to one more than the table has columns.
InitSelect ==
    /\ out_names = AllNames
    /\ \E s \in 0..(NSeeds - 1) :
          /\ df_desc_base_train = DescTable(s, NDesc, NRows)
          /\ X_train_fp = FpTable(s, FpWidth, NRows)
    /\ df_desc_base_test = [c \in Calls |-> DescTable(0, NDesc, NRows)]
    /\ X_test_fp = [c \in Calls |-> FpTable(c, FpWidth, NRows)]
    /\ \E shift \in 0..(NRows - 1) :
          y_train = [n \in Labels |-> Target(n, shift, 1, NRows)]
    /\ k \in 0..(NDesc + 1)
    /\ IdleBuildLocals
    /\ IdleBalance
    /\ IdleCV
    /\ IdleSearch
    /\ IdleReport
    /\ IdleSelect
    /\ IdleOffside
    /\ IdleLoop

NextSelect == SelectMultiStart \/ SelectMultiLabel \/ SelectMultiReturn

SpecSelect == InitSelect /\ [][NextSelect]_vars

\* The builder (one call) followed by balance_dataset on what it returned,
\* for a small fingerprint table and for one as wide as the mask expects.
FingerprintWidths == {FpWidth, cat_len - n_continuous}

\* A partition just large enough for SMOTENC's neighbour search.
RowsForSmote == 2 * (k_neighbors + 1) + 1

InitBalance ==
    /\ out_names = AllNames
    /\ \E s \in 0..(NSeeds - 1), w \in FingerprintWidths,
          size \in {<<NRows, 1>>, <<RowsForSmote, k_neighbors + 1>>},
          shift \in 0..(NRows - 1) :
          /\ df_desc_base_train = DescTable(s, NDesc, size[1])
          /\ X_train_fp = FpTable(s, w, size[1])
          /\ df_desc_base_test = [c \in Calls |-> DescTable(s, NDesc, size[1])]
          /\ X_test_fp = [c \in Calls |-> FpTable(c, w, size[1])]
          /\ y_train = [n \in Labels |-> Target(n, shift, size[2], size[1])]
    /\ k \in 0..NDesc
    /\ IdleBuildLocals
    /\ IdleBalance
    /\ IdleCV
    /\ IdleSearch
    /\ IdleReport
    /\ IdleSelect
    /\ IdleOffside
    /\ IdleLoop

NextBalance ==
    \/ BuildStart(1) \/ BuildLabel(1) \/ BuildReturn(1)
    \/ BalanceStart \/ BalanceLabel \/ BalanceReturn

SpecBalance == InitBalance /\ [][NextBalance]_vars

\* One call of grid_search, random_search, cv_report or of the per-label
\* body of test_score_multi_report.  The matrix has the columns the builder
\* gives it for k = 3; the training set is small, with few positive rows, or
\* just large enough for SMOTENC inside every fold.
MatrixColumns(w) ==
    [j \in 1..w |-> FpName(j)] \o [j \in 1..n_continuous |-> DescName(j)]

\* npos positive rows followed by nneg negative rows.
ClassVector(npos, nneg) == [r \in 1..(npos + nneg) |-> IF r <= npos THEN 1 ELSE 0]

LargePos == 2 * (k_neighbors + 1)

TrainingTargets ==
    {ClassVector(p, n) : p \in 0..FewPos, n \in {1, SmallNeg}}
        \cup {ClassVector(LargePos, LargePos + FewPos)}

InitCV ==
    /\ out_names = AllNames
    /\ cv_op \in AllOps
    /\ balancing \in BOOLEAN
    /\ model \in {"SVC", "RF"}
    /\ y_label \in TrainingTargets
    /\ \E w \in FingerprintWidths :
          X_train = [columns |-> MatrixColumns(w), index |-> 1..Len(y_label)]
    /\ X_test_rows = {Len(y_label) + 1, Len(y_label) + 2}
    /\ IF cv_op = "test_score_multi_report"
       THEN /\ n_splits = 2
            /\ n_candidates = 1
            /\ \E c \in {0, 1} :
                  y_test_label = [r \in X_test_rows |->
                                     IF r = Len(y_label) + 1 THEN 1 ELSE c]
       ELSE /\ n_splits \in 2..MaxSplits
            /\ n_candidates \in (IF cv_op \in SearchOps THEN 1..MaxCandidates ELSE {1})
            /\ y_test_label = [r \in X_test_rows |->
                                  IF r = Len(y_label) + 1 THEN 1 ELSE 0]
    /\ IF cv_op \in SearchOps
       THEN verbose \in BOOLEAN /\ test_given \in BOOLEAN
       ELSE verbose = FALSE /\ test_given = FALSE
    /\ estimator = None
    /\ test_folds = None
    /\ cv_next = 0
    /\ events = <<>>
    /\ cv_pc = "idle"
    /\ df_desc_base_train = DescTable(0, NDesc, NRows)
    /\ X_train_fp = FpTable(0, FpWidth, NRows)
    /\ df_desc_base_test = [c \in Calls |-> DescTable(0, NDesc, NRows)]
    /\ X_test_fp = [c \in Calls |-> FpTable(c, FpWidth, NRows)]
    /\ y_train = [n \in Labels |-> Target(n, 0, 1, NRows)]
    /\ k = n_continuous
    /\ IdleBuildLocals
    /\ IdleBalance
    /\ IdleSearch
    /\ IdleReport
    /\ IdleSelect
    /\ IdleOffside
    /\ IdleLoop

NextCV ==
    \/ CVStart
    \/ CVFold
    \/ SearchFinish
    \/ ReportFinish
    \/ HeldOutFit
    \/ HeldOutScore

SpecCV == InitCV /\ [][NextCV]_vars

\* Two calls of multi_label_grid_search, or of multi_label_random_search,
\* with the same shared arguments.  In the first call every label has the
\* same matrix and a grid of the same size; the second call changes the
\* matrix and the grid of one label, or changes nothing.  numpy's global
\* generator is in any state at the first call, and in that state or the
\* next at the second.

\* The grid of family m with nfirst values for its first parameter and one
\* value for each of the others (all of them, or none).
Grid(m, prefixed, nfirst, full) ==
    [i \in 1..(IF full THEN Len(ParamNames(m)) ELSE 1) |->
        [key    |-> IF prefixed THEN StepKey(m, ParamNames(m)[i]) ELSE ParamNames(m)[i],
         values |-> IF i = 1 THEN [v \in 1..nfirst |-> v] ELSE <<1>>]]

LargeTarget == ClassVector(LargePos, LargePos + FewPos)

\* No call of the search has started; nothing but y_train of the builder and
\* nothing but the shared arguments of the single-label functions is in use.
IdleSearchLocals ==
    /\ best_params_by_label = [c \in Calls |-> [n \in Labels |-> None]]
    /\ cv_results_ = [c \in Calls |-> [n \in Labels |-> None]]
    /\ ms_i = [c \in Calls |-> 0]
    /\ ms_pc = [c \in Calls |-> "idle"]

IdleSingleLabel ==
    /\ cv_op = "grid_search"
    /\ X_train = [columns |-> <<>>, index |-> {}]
    /\ y_label = <<>>
    /\ X_test_rows = {}
    /\ y_test_label = <<>>
    /\ n_candidates = 0
    /\ estimator = None
    /\ test_folds = None
    /\ cv_next = 0
    /\ events = <<>>
    /\ cv_pc = "idle"
    /\ df_desc_base_train = DescTable(0, NDesc, NRows)
    /\ X_train_fp = FpTable(0, FpWidth, NRows)
    /\ df_desc_base_test = [c \in Calls |-> DescTable(0, NDesc, NRows)]
    /\ X_test_fp = [c \in Calls |-> FpTable(c, FpWidth, NRows)]
    /\ k = n_continuous
    /\ IdleBuildLocals
    /\ IdleBalance

SmallTarget == ClassVector(FewPos, SmallNeg)

InitSearch ==
    /\ out_names = AllNames
    /\ search_kind \in {"grid", "random"}
    /\ balancing \in BOOLEAN
    /\ model = "SVC"
    /\ n_splits = 2
    /\ n_iter \in (IF search_kind = "random" THEN 1..MaxCandidates ELSE {MaxCandidates})
    /\ verbose = FALSE
    /\ test_given = FALSE
    /\ \E small \in {0} \cup Labels :
           y_train = [n \in Labels |-> IF n = small THEN SmallTarget ELSE LargeTarget]
    /\ \E varied \in Labels, size1 \in {MaxCandidates}, size2 \in 1..MaxCandidates,
          tag2 \in {0, 1} :
          /\ X_train_dic = [c \in Calls |-> [n \in Labels |->
                               Matrix(cat_len, Len(y_train[n]),
                                      IF c = 2 /\ n = varied THEN tag2 ELSE 0)]]
          /\ params_to_test = [c \in Calls |-> [n \in Labels |->
                                  Grid(model, balancing,
                                       IF c = 2 /\ n = varied THEN size2 ELSE size1,
                                       FALSE)]]
    /\ \E s \in 0..(RngPeriod - 1), d \in {0, 1} :
          np_seed = [c \in Calls |-> IF c = 1 THEN s ELSE (s + d) % RngPeriod]
    /\ np_random = np_seed
    /\ QuietSearch
    /\ IdleSearchLocals
    /\ IdleSingleLabel
    /\ IdleReport
    /\ IdleSelect
    /\ IdleOffside
    /\ IdleLoop

NextSearch ==
    \E c \in Calls : MultiStart(c) \/ MultiLabel(c) \/ MultiReturn(c)

SpecSearch == InitSearch /\ [][NextSearch]_vars

\* Two calls with the same arguments and the same generator state, the first
\* quiet and without held-out data, the second with any verbose flag and any
\* form of held-out data.
HeldOutForms == {"none", "frame", "dict"}

InitVerbose ==
    /\ out_names = AllNames
    /\ search_kind \in {"grid", "random"}
    /\ balancing \in BOOLEAN
    /\ model = "SVC"
    /\ n_splits = 2
    /\ n_iter \in (IF search_kind = "random" THEN 1..MaxCandidates ELSE {MaxCandidates})
    /\ verbose = FALSE
    /\ test_given = FALSE
    /\ \E small \in {0} \cup Labels :
           y_train = [n \in Labels |-> IF n = small THEN SmallTarget ELSE LargeTarget]
    /\ X_train_dic = [c \in Calls |-> [n \in Labels |->
                         Matrix(cat_len, Len(y_train[n]), 0)]]
    /\ \E size \in 1..MaxCandidates :
          params_to_test = [c \in Calls |-> [n \in Labels |->
                                  Grid(model, balancing, size, FALSE)]]
    /\ \E s \in 0..(RngPeriod - 1) : np_seed = [c \in Calls |-> s]
    /\ np_random = np_seed
    /\ \E v \in BOOLEAN, held_out \in HeldOutForms :
          /\ ms_verbose = [c \in Calls |-> c = 2 /\ v]
          /\ ms_y_test = [c \in Calls |-> IF c = 2 THEN held_out ELSE "none"]
    /\ IdleSearchLocals
    /\ IdleSingleLabel
    /\ IdleReport
    /\ df_desc_base_train = DescTable(0, NDesc, NRows)
    /\ X_train_fp = FpTable(0, FpWidth, NRows)
    /\ df_desc_base_test = [c \in Calls |-> DescTable(0, NDesc, NRows)]
    /\ X_test_fp = [c \in Calls |-> FpTable(c, FpWidth, NRows)]
    /\ k = n_continuous
    /\ IdleBuildLocals
    /\ IdleBalance
    /\ IdleSelect
    /\ IdleOffside
    /\ IdleLoop

NextVerbose ==
    \E c \in Calls : MultiStart(c) \/ MultiLabel(c) \/ MultiReturn(c)

SpecVerbose == InitVerbose /\ [][NextVerbose]_vars

\* One search over the grids of one family, then cv_multi_report and
\* test_score_multi_report on the same labels, with no spec_params, with the
\* map the search returned or with a list of three maps.  The grid has every
\* parameter the reports set, or the first only; its keys are the names the
\* searched estimator has.
Tags == Families \cup {"VotingClassifier", "other"}

InitReport ==
    /\ out_names = AllNames
    /\ search_kind \in {"grid", "random"}
    /\ balancing \in BOOLEAN
    /\ model \in Families
    /\ n_splits = 2
    /\ n_iter = MaxCandidates
    /\ verbose = FALSE
    /\ test_given = FALSE
    /\ y_train = [n \in Labels |-> LargeTarget]
    /\ X_train_dic = [c \in Calls |-> [n \in Labels |->
                         Matrix(cat_len, Len(y_train[n]), 0)]]
    /\ \E full \in BOOLEAN :
          params_to_test = [c \in Calls |-> [n \in Labels |->
                               Grid(model, balancing, MaxCandidates, full)]]
    /\ np_seed = [c \in Calls |-> 0]
    /\ np_random = np_seed
    /\ \E tag \in Tags, last \in Tags :
          /\ last \in {tag, "other"}
          /\ modelname = [n \in Labels |-> IF n = out_names[NLabels] THEN last ELSE tag]
    /\ spec_params_form \in {"none", "map", "list"}
    /\ \E c \in {0, 1} :
          y_test = [n \in Labels |-> IF n = out_names[NLabels] THEN <<1, c>> ELSE <<1, 0>>]
    /\ report = [f \in Reports |-> None]
    /\ model_temp = [f \in Reports |-> [n \in Labels |-> None]]
    /\ fitted = [f \in Reports |-> [n \in Labels |-> None]]
    /\ rep_i = [f \in Reports |-> 0]
    /\ rep_pc = [f \in Reports |-> "idle"]
    /\ rep_error = [f \in Reports |-> None]
    /\ QuietSearch
    /\ IdleSearchLocals
    /\ IdleSingleLabel
    /\ IdleSelect
    /\ IdleOffside
    /\ IdleLoop

NextReport ==
    \/ MultiStart(1) \/ MultiLabel(1) \/ MultiReturn(1)
    \/ \E f \in Reports : ReportStart(f) \/ ReportLabel(f) \/ ReportReturn(f)

SpecReport == InitReport /\ [][NextReport]_vars

\* Every multi-label function called with an empty list of names, on the
\* (empty) dictionaries the function before it returned.
InitEmpty ==
    /\ out_names = <<>>
    /\ search_kind \in {"grid", "random"}
    /\ balancing \in BOOLEAN
    /\ model = "SVC"
    /\ n_splits = 2
    /\ n_iter = MaxCandidates
    /\ verbose = FALSE
    /\ test_given = FALSE
    /\ y_train = [n \in Labels |-> LargeTarget]
    /\ X_train_dic = [c \in Calls |-> [n \in Labels |-> Matrix(cat_len, 0, 0)]]
    /\ params_to_test = [c \in Calls |-> [n \in Labels |-> <<>>]]
    /\ np_seed = [c \in Calls |-> 0]
    /\ np_random = np_seed
    /\ \E v \in BOOLEAN, held_out \in HeldOutForms :
          /\ ms_verbose = [c \in Calls |-> v]
          /\ ms_y_test = [c \in Calls |-> held_out]
    /\ modelname = [n \in Labels |-> "SVC"]
    /\ spec_params_form \in {"none", "map", "list"}
    /\ y_test = [n \in Labels |-> <<>>]
    /\ report = [f \in Reports |-> None]
    /\ model_temp = [f \in Reports |-> [n \in Labels |-> None]]
    /\ fitted = [f \in Reports |-> [n \in Labels |-> None]]
    /\ rep_i = [f \in Reports |-> 0]
    /\ rep_pc = [f \in Reports |-> "idle"]
    /\ rep_error = [f \in Reports |-> None]
    /\ IdleSearchLocals
    /\ IdleSingleLabel
    /\ IdleSelect
    /\ IdleOffside
    /\ IdleLoop

\* With no label no loop body runs: each function starts and returns.
NextEmpty ==
    \/ SelectMultiStart
    \/ BuildStart(1) \/ BuildReturn(1)
    \/ BalanceStart \/ BalanceReturn
    \/ MultiStart(1) \/ MultiReturn(1)
    \/ \E f \in Reports : ReportStart(f) \/ ReportReturn(f)

SpecEmpty == InitEmpty /\ [][NextEmpty]_vars

\* create_offside_df on a file of NOss rows about NCompounds compounds, each
\* written with or without a leading zero, each request ending in one of the
\* three ways.
StitchIds == {<<zeros, ct>> : zeros \in {0, 1}, ct \in 1..NCompounds}

InitOffside ==
    /\ out_names = AllNames
    /\ oss \in [1..NOss -> [stitch_id : StitchIds, SOC : {0, 1}]]
    /\ write \in BOOLEAN
    /\ responses \in [1..NCompounds -> {"ok", "http_error", "connection_error"}]
    /\ stitchs = <<>>
    /\ sti_to_smil = <<>>
    /\ stdout = <<>>
    /\ off_i = 0
    /\ off_pc = "idle"
    /\ mod_off = None
    /\ csv_out = None
    /\ IdleSelect
    /\ IdleSingleLabel
    /\ balancing = FALSE
    /\ model = "SVC"
    /\ n_splits = 2
    /\ verbose = FALSE
    /\ test_given = FALSE
    /\ y_train = [n \in Labels |-> LargeTarget]
    /\ IdleSearch
    /\ IdleReport
    /\ IdleLoop

NextOffside == OffsideStart \/ OffsideLookup \/ OffsideReturn

SpecOffside == InitOffside /\ [][NextOffside]_vars

\* One loop of a search or of a report, with one worker or several, few or
\* many folds and candidates.
InitLoop ==
    /\ out_names = AllNames
    /\ loop_op \in Loops
    /\ n_jobs \in 1..MaxJobs
    /\ n_splits \in {2, MaxSplits}
    /\ n_candidates \in {1, MaxCandidates}
    /\ queued = <<>>
    /\ running = {}
    /\ finished = {}
    /\ written = <<>>
    /\ loop_i = 0
    /\ loop_pc = "idle"
    /\ cv_op = "grid_search"
    /\ X_train = [columns |-> <<>>, index |-> {}]
    /\ y_label = <<>>
    /\ X_test_rows = {}
    /\ y_test_label = <<>>
    /\ balancing = FALSE
    /\ model = "SVC"
    /\ verbose = FALSE
    /\ test_given = FALSE
    /\ estimator = None
    /\ test_folds = None
    /\ cv_next = 0
    /\ events = <<>>
    /\ cv_pc = "idle"
    /\ df_desc_base_train = DescTable(0, NDesc, NRows)
    /\ X_train_fp = FpTable(0, FpWidth, NRows)
    /\ df_desc_base_test = [c \in Calls |-> DescTable(0, NDesc, NRows)]
    /\ X_test_fp = [c \in Calls |-> FpTable(c, FpWidth, NRows)]
    /\ y_train = [n \in Labels |-> LargeTarget]
    /\ k = n_continuous
    /\ IdleBuildLocals
    /\ IdleBalance
    /\ IdleSearch
    /\ IdleReport
    /\ IdleSelect
    /\ IdleOffside

NextLoop ==
    \/ LoopStart \/ LoopDispatch \/ WorkerTake \/ WorkerFinish
    \/ LoopCollect \/ LoopReturn

SpecLoop == InitLoop /\ [][NextLoop]_vars

(***************************************************************************)
(* Properties                                                              *)
(***************************************************************************)
\* The descriptor columns of a matrix: those that come from a descriptor table.
IsDescriptor(c) == c[1] = "desc"
DescriptorColumns(X) == SelectSeq(X.columns, IsDescriptor)

\* C1: for every label, the descriptor columns of the test matrix are the
\* same names in the same order as the recorded selection and as the
\* descriptor columns of the train matrix.
C1_TestColumnsAreTrainSelection ==
    \A c \in Calls, n \in Labels :
        ~IsNone(test_series_dic[c][n]) =>
            /\ ~IsNone(selected_name[c][n])
            /\ ~IsNone(train_series_dic[c][n])
            /\ DescriptorColumns(Get(test_series_dic[c][n])) = Get(selected_name[c][n])
            /\ DescriptorColumns(Get(train_series_dic[c][n])) = Get(selected_name[c][n])

\* A call returned with a selection that is not the leading columns of the
\* held-out table and that differs between two labels.
C1_Witness ==
    /\ build_pc[1] = "returned"
    /\ \E n, m \in Labels :
          /\ Get(selected_name[1][n]) # Get(selected_name[1][m])
          /\ Get(selected_name[1][n]) #
                SubSeq(df_desc_base_test[1].columns, 1, Len(Get(selected_name[1][n])))
          /\ DescriptorColumns(Get(test_series_dic[1][n])) = Get(selected_name[1][n])

\* C2: two calls that differ only in the held-out inputs return the same
\* selected_name map and the same train matrices.
C2_SelectionIgnoresHeldOut ==
    (build_pc[1] = "returned" /\ build_pc[2] = "returned") =>
        /\ selected_name[1] = selected_name[2]
        /\ train_series_dic[1] = train_series_dic[2]

\* Both calls returned, on held-out tables that differ.
C2_Witness ==
    /\ build_pc[1] = "returned" /\ build_pc[2] = "returned"
    /\ df_desc_base_test[1] # df_desc_base_test[2]
    /\ X_test_fp[1] # X_test_fp[2]
    /\ test_series_dic[1] # test_series_dic[2]
    /\ selected_name[1] = selected_name[2]

\* C4: at every application of the balancer the mask is as long as the
\* matrix is wide, True on the fingerprint columns and False on the
\* descriptor columns.
C4_MaskMatchesLayout ==
    \A e \in 1..Len(smote_log) :
        LET a == smote_log[e]
        IN  /\ Len(a.categorical_features) = Len(a.columns)
            /\ \A i \in 1..Len(a.columns) :
                   i <= Len(a.categorical_features) =>
                       (a.categorical_features[i] = ~IsDescriptor(a.columns[i]))

\* C3: when balancing is requested the balancer is the first stage of the
\* estimator, it is run exactly once for every fit and on the rows of that
\* fit only (the training rows of the fold, or all training rows), and never
\* on validation rows or held-out rows.
FoldsCut == Get(test_folds)

C3_BalancerOnlyOnTrainingRows ==
    /\ (balancing /\ ~IsNone(estimator)) => Get(estimator).steps[1] = "smotenc"
    /\ \A i \in 1..Len(events) :
          LET e == events[i]
          IN  /\ e.kind = "fit_resample" =>
                    /\ balancing
                    /\ e.rows \subseteq AllRows
                    /\ e.rows \cap X_test_rows = {}
                    /\ e.phase = "cv" =>
                          /\ e.rows = TrainRows(FoldsCut, e.fold)
                          /\ e.rows \cap ValidationRows(FoldsCut, e.fold) = {}
                    /\ e.phase # "cv" => e.rows = AllRows
                    /\ \A j \in 1..Len(events) : events[j] = e => j = i
              /\ (balancing /\ e.kind = "fit") =>
                    /\ i > 1
                    /\ events[i - 1] = [e EXCEPT !.kind = "fit_resample"]
              /\ e.kind \in {"predict", "predict_proba"} =>
                    e.rows = IF e.phase = "cv" THEN ValidationRows(FoldsCut, e.fold)
                             ELSE X_test_rows

\* A balanced grid search went through every fold and returned.
C3_Witness ==
    /\ balancing
    /\ cv_op = "grid_search"
    /\ cv_pc = "returned"
    /\ \A f \in 1..n_splits :
          /\ \E i \in 1..Len(events) :
                events[i] = Event("fit_resample", "cv", 1, f, TrainRows(FoldsCut, f))
          /\ \E i \in 1..Len(events) :
                events[i] = Event("predict", "cv", 1, f, ValidationRows(FoldsCut, f))

\* C10: a search or a cross-validated report on a label with fewer than
\* n_splits positive rows never returns.
C10_InfeasibleStratificationRaises ==
    (cv_op \in CVOps /\ ClassCount(y_label, 1) < n_splits) => cv_pc # "returned"

\* C5: in multi_label_grid_search and multi_label_random_search the best
\* configuration recorded for a label depends only on the label's own
\* matrix, target vector and grid and on the shared arguments: two calls that
\* both return, that start with numpy's generator in the same state and that
\* give a label the same inputs, record the same entry for it, whatever they
\* give the other labels.
SameInputs(label) ==
    /\ X_train_dic[1][label] = X_train_dic[2][label]
    /\ params_to_test[1][label] = params_to_test[2][label]

BothReturned == \A c \in Calls : ms_pc[c] = "returned"

C5_LabelsAreIndependent ==
    (BothReturned /\ np_seed[1] = np_seed[2]) =>
        \A label \in Labels :
            SameInputs(label) =>
                best_params_by_label[1][label] = best_params_by_label[2][label]

\* C9: the same search run twice with the same data, the same grids and the
\* same random_state returns the same best configuration and the same mean
\* scores for every label.
C9_SameSeedSameResult ==
    (BothReturned /\ \A label \in Labels : SameInputs(label)) =>
        \A label \in Labels :
            /\ best_params_by_label[1][label] = best_params_by_label[2][label]
            /\ cv_results_[1][label] = cv_results_[2][label]

\* C6: when cv_multi_report and test_score_multi_report both return a
\* table for the same out_names, the tables have one row per label, the same
\* set of columns, and in every column a value with the same meaning in
\* every row.
C6_ReportsAgree ==
    (\A f \in Reports : rep_pc[f] = "returned") =>
        LET cv == Get(report["cv_multi_report"])
            held == Get(report["test_score_multi_report"])
        IN  /\ cv.index = out_names
            /\ held.index = out_names
            /\ ColumnSet(cv) = ColumnSet(held)
            /\ \A n \in Labels : \A c \in ColumnSet(cv) \cap ColumnSet(held) :
                  /\ ~IsNone(cv.cells[n][c])
                  /\ cv.cells[n][c] = held.cells[n][c]

\* C7: test_score_multi_report, given spec_params, never ends in the abort
\* (print and return None) at a label whose tag is one of the four
\* families.
FourFamilies == Families \cup {"VotingClassifier"}

C7_FourFamiliesReported ==
    rep_pc["test_score_multi_report"] = "returned_none" =>
        modelname[out_names[rep_i["test_score_multi_report"] + 1]] \notin FourFamilies

\* C8: when the map a search returned is passed as spec_params and every
\* label is tagged with the family that was searched, no report ends in a
\* lookup failure and every estimator a report rebuilds has exactly the
\* stored values as its hyperparameters.
C8_RoundTrip ==
    (spec_params_form = "map" /\ \A n \in Labels : modelname[n] = model) =>
        \A f \in Reports :
            /\ rep_error[f] # Some("KeyError")
            /\ \A n \in Labels :
                  ~IsNone(model_temp[f][n]) =>
                      LET stored == Get(best_params_by_label[1][n])
                          rebuilt == Get(model_temp[f][n]).params
                      IN  /\ Cardinality(DOMAIN rebuilt) = Cardinality(DOMAIN stored)
                          /\ \A name \in DOMAIN rebuilt :
                                rebuilt[name] = stored[StepKey(model, name)]

\* C11: when a report is given spec_params and ends in the abort (print and
\* return None) because of a label's tag, no label has been evaluated before:
\* no estimator was built, no row was written.
C11_AbortBeforeAnyEvaluation ==
    \A f \in Reports :
        rep_pc[f] = "returned_none" =>
            /\ rep_i[f] = 0
            /\ \A n \in Labels : IsNone(model_temp[f][n])
            /\ Get(report[f]) = EmptyReport(ReportColumns(f))

\* C12: a label whose search raises ends the whole multi-label search: every
\* label the loop has passed has an entry, the failing label and the labels
\* after it have none and were not searched, the call never reaches its return,
\* and nothing of the call changes after the exception.
C12_FailedLabelAbortsSearch ==
    /\ [](\A c \in Calls :
             /\ \A i \in 1..ms_i[c] : ~IsNone(best_params_by_label[c][out_names[i]])
             /\ \A i \in (ms_i[c] + 1)..Len(out_names) :
                    IsNone(best_params_by_label[c][out_names[i]])
             /\ \A i \in (ms_i[c] + 2)..Len(out_names) :
                    IsNone(cv_results_[c][out_names[i]])
             /\ ms_pc[c] = "raised" => ms_i[c] < Len(out_names)
             /\ ms_pc[c] = "returned" => ms_i[c] = Len(out_names))
    /\ [][\A c \in Calls :
             ms_pc[c] = "raised" =>
                 /\ ms_pc'[c] = "raised"
                 /\ best_params_by_label'[c] = best_params_by_label[c]
                 /\ cv_results_'[c] = cv_results_[c]
                 /\ ms_i'[c] = ms_i[c]]_vars

\* A call that raised on a later label after an earlier label's search had
\* produced its entry.
C12_Witness ==
    \E c \in Calls :
        /\ ms_pc[c] = "raised"
        /\ ms_i[c] >= 1
        /\ ~IsNone(best_params_by_label[c][out_names[1]])

\* C13: two calls of the same search with the same arguments and the same
\* generator state, differing only in the verbose flag and in the held-out
\* data handed over for printing, end the same way (both return or both raise)
\* and, when they return, with the same map.
C13_OutputDoesNotAffectResult ==
    (/\ \A c \in Calls : ms_pc[c] \in {"returned", "raised"}
     /\ X_train_dic[1] = X_train_dic[2]
     /\ params_to_test[1] = params_to_test[2]
     /\ np_seed[1] = np_seed[2])
    => /\ ms_pc[1] = ms_pc[2]
       /\ ms_pc[1] = "returned" => best_params_by_label[1] = best_params_by_label[2]

\* C17: select_best_descriptors_multi holds, after each label and on return,
\* the union of the k-best selections of the labels processed: every column
\* selected for one of them, no other column, none twice, ordered by the first
\* label that selected it and, within a label, by the selection's own order.
KBest(i) == select_best_descriptors(df_desc_base_train, y_train[out_names[i]], k)

FirstLabel(col) ==
    CHOOSE i \in 1..sel_i :
        /\ \E p \in DOMAIN KBest(i) : KBest(i)[p] = col
        /\ \A j \in 1..(i - 1) : \A p \in DOMAIN KBest(j) : KBest(j)[p] # col

PlaceIn(list, col) == CHOOSE p \in DOMAIN list : list[p] = col

C17_SelectionIsOrderedUnion ==
    sel_pc \in {"loop", "returned"} =>
        /\ {selected[p] : p \in DOMAIN selected}
              = UNION {{KBest(i)[p] : p \in DOMAIN KBest(i)} : i \in 1..sel_i}
        /\ \A p, q \in DOMAIN selected : p < q =>
              /\ selected[p] # selected[q]
              /\ FirstLabel(selected[p]) <= FirstLabel(selected[q])
              /\ FirstLabel(selected[p]) = FirstLabel(selected[q]) =>
                    PlaceIn(KBest(FirstLabel(selected[p])), selected[p])
                      < PlaceIn(KBest(FirstLabel(selected[p])), selected[q])

\* A returned selection to which a later label added a column, in which a
\* column selected for two labels stands once, and whose order is not the
\* table's column order.
C17_Witness ==
    /\ sel_pc = "returned"
    /\ k >= 1
    /\ Len(selected) > k
    /\ Len(selected) < k * Len(out_names)
    /\ \E p, q \in DOMAIN selected :
          /\ p < q
          /\ ColumnIndex(df_desc_base_train, selected[p])
               > ColumnIndex(df_desc_base_train, selected[q])

\* C14: called with an empty list of names, no multi-label function completes
\* in the ordinary way, which prints no message: each one that has been called
\* is still running or has ended through its diagnostic exit.
C14_EmptyNamesAreDiagnosed ==
    out_names = <<>> =>
        /\ sel_pc # "returned"
        /\ \A c \in Calls : build_pc[c] # "returned"
        /\ bal_pc # "returned"
        /\ \A c \in Calls : ms_pc[c] # "returned"
        /\ \A f \in Reports : rep_pc[f] # "returned"

\* C16: within a report, the objects fitted for two different labels are
\* different objects.
C16_NoEstimatorSharedAcrossLabels ==
    \A f \in Reports : \A a, b \in Labels :
        (a # b /\ ~IsNone(fitted[f][a]) /\ ~IsNone(fitted[f][b]))
            => fitted[f][a] # fitted[f][b]

\* C19: create_offside_df is never left by an exception of a lookup; every
\* stitch id looked up has a value, and a problem printed with its id when its
\* request did not succeed; the table returned has one row per unique id.
C19_FailedLookupDoesNotAbort ==
    /\ off_pc # "raised"
    /\ \A i \in 1..off_i :
          /\ ~IsNone(sti_to_smil[stitchs[i]])
          /\ responses[Trim(stitchs[i])] # "ok" =>
                \E p \in DOMAIN stdout : stdout[p] = stitchs[i]
    /\ off_pc = "returned" =>
          Len(Get(mod_off)) = Cardinality({oss[r].stitch_id : r \in DOMAIN oss})

\* C18: every label balance_dataset has applied the balancer to, whose target
\* has a majority class of M rows and a smaller class, has a resampled set:
\* both classes have M rows, 2 * M rows in all, the original rows come first
\* and unchanged, and every added row is of the smaller class.
C18_BalancedToMajority ==
    \A e \in 1..Len(smote_log) :
        LET label == smote_log[e].label
            X == Get(train_series_dic[1][label])
            y == y_train[label]
            big == MajorityCount(y)
        IN  Oversampled(y) # {} =>
                /\ ~IsNone(train_series_dic_bal[label])
                /\ ~IsNone(y_dic_bal[label])
                /\ LET X_bal == Get(train_series_dic_bal[label])
                       y_bal == Get(y_dic_bal[label])
                   IN  /\ \A c \in {0, 1} : ClassCount(y_bal, c) = big
                       /\ Len(y_bal) = 2 * big
                       /\ \A r \in 1..Len(y) : y_bal[r] = y[r]
                       /\ \A r \in (Len(y) + 1)..Len(y_bal) : y_bal[r] \in Oversampled(y)
                       /\ X_bal.values = X.values
                       /\ X_bal.synthetic = 2 * big - Len(y)

\* C20: in multi_label_grid_search the result map has exactly the names of
\* out_names as keys; the entries of the labels the loop has completed hold a
\* configuration of the label's own grid params_to_test[label], the entries
\* of the others are None; at the return the loop has completed every label.
Configurations(grid) == {ParameterGrid(grid)[i] : i \in DOMAIN ParameterGrid(grid)}

C20_GridSearchLoopInvariant ==
    \A c \in Calls :
        (search_kind = "grid" /\ ms_pc[c] # "idle") =>
            /\ DOMAIN best_params_by_label[c] = Labels
            /\ \A i \in 1..Len(out_names) :
                  LET entry == best_params_by_label[c][out_names[i]]
                  IN  IF i <= ms_i[c]
                      THEN /\ ~IsNone(entry)
                           /\ Get(entry) \in Configurations(params_to_test[c][out_names[i]])
                      ELSE IsNone(entry)
            /\ ms_pc[c] = "returned" => ms_i[c] = Len(out_names)

\* A grid search that returned a map whose entries come from grids of
\* different sizes.
C20_Witness ==
    \E c \in Calls :
        /\ search_kind = "grid"
        /\ ms_pc[c] = "returned"
        /\ \E a, b \in Labels :
              Cardinality(Configurations(params_to_test[c][a]))
                  # Cardinality(Configurations(params_to_test[c][b]))

\* C15: the labels are processed one after another.  Every task in the pool
\* belongs to the label the loop is at; the entries written are those of the
\* labels the loop has completed, in out_names order; and an entry is written
\* only when every fold and candidate evaluation of its label has completed.
InPool == {queued[p] : p \in DOMAIN queued} \cup running

AllTasks(label) == {Tasks(loop_op, label)[t] : t \in DOMAIN Tasks(loop_op, label)}

C15_LabelsRunOneAfterAnother ==
    /\ \A t \in InPool :
          /\ loop_pc = "waiting"
          /\ t.label = out_names[loop_i + 1]
    /\ Len(written) = loop_i
    /\ \A p \in DOMAIN written :
          /\ written[p] = out_names[p]
          /\ AllTasks(written[p]) \subseteq finished
    /\ \A t \in finished : \E p \in 1..Len(out_names) :
          /\ t.label = out_names[p]
          /\ p <= loop_i + 1

\* Several workers run fits of a later label at once, the earlier label's
\* entry being written.
C15_Witness ==
    /\ Cardinality(running) > 1
    /\ Len(written) >= 1

=============================================================================
